---- MODULE Spec2Model ----
(***************************************************************************)
(* Model of the chat router (sendMessage, getConversations, getMessages),  *)
(* the protectedProcedure middleware in front of it, and the relational    *)
(* store (conversations, messages) with its constraints and row policies.  *)
(*                                                                         *)
(* Strings are sequences of one-character strings, so that trim,           *)
(* toLowerCase, startsWith, substring and the /image regular expression    *)
(* are computed the way the code computes them.                            *)
(***************************************************************************)
EXTENDS Integers, Sequences, FiniteSets, TLC

VARIABLES conversations, messages, clock, req, ui

vars == <<conversations, messages, clock, req, ui>>

(***************************************************************************)
(* Bounds of the model                                                     *)
(***************************************************************************)
MaxConvs == 1
MaxMsgs == 2
DeepMaxMsgs == 25

(***************************************************************************)
(* Program constants                                                       *)
(***************************************************************************)
HistoryLimit == 20
TitleLen == 50

(***************************************************************************)
(* Strings                                                                 *)
(***************************************************************************)
Rep(c, n) == [i \in 1..n |-> c]

UpperChars == <<"A","B","C","D","E","F","G","H","I","J","K","L","M",
                "N","O","P","Q","R","S","T","U","V","W","X","Y","Z">>
LowerChars == <<"a","b","c","d","e","f","g","h","i","j","k","l","m",
                "n","o","p","q","r","s","t","u","v","w","x","y","z">>

LowerChar(c) ==
    IF \E i \in 1..Len(UpperChars) : UpperChars[i] = c
    THEN LowerChars[CHOOSE i \in 1..Len(UpperChars) : UpperChars[i] = c]
    ELSE c

toLowerCase(s) == [i \in 1..Len(s) |-> LowerChar(s[i])]

IsSpace(c) == c \in {" ", "\t", "\n", "\r"}

RECURSIVE trimStart(_)
trimStart(s) ==
    IF s # <<>> /\ IsSpace(Head(s)) THEN trimStart(Tail(s)) ELSE s

RECURSIVE trimEnd(_)
trimEnd(s) ==
    IF s # <<>> /\ IsSpace(s[Len(s)])
    THEN trimEnd(SubSeq(s, 1, Len(s) - 1)) ELSE s

trim(s) == trimEnd(trimStart(s))

startsWith(s, p) == Len(s) >= Len(p) /\ SubSeq(s, 1, Len(p)) = p

\* String.prototype.substring(0, n)
substring0(s, n) == SubSeq(s, 1, IF Len(s) < n THEN Len(s) ELSE n)

SlashImage == <<"/","i","m","a","g","e">>

\* message.replace(/^\/image\s*/i, ''): the pattern is anchored at the
\* first character of the untrimmed message.
replaceImageToken(s) ==
    IF startsWith(toLowerCase(s), SlashImage)
    THEN trimStart(SubSeq(s, Len(SlashImage) + 1, Len(s)))
    ELSE s

isImageGenerationRequest(message) ==
    startsWith(toLowerCase(trim(message)), SlashImage)

imagePrompt(message) == trim(replaceImageToken(message))

hasUploadedImage(imageBase64, mimeType) ==
    imageBase64 # <<>> /\ mimeType # <<>>

(***************************************************************************)
(* String literals of the router                                           *)
(***************************************************************************)
DataPrefix == <<"d","a","t","a",":">>
Base64Infix == <<";","b","a","s","e","6","4",",">>
ImageSlash == <<"i","m","a","g","e","/">>
ImagePng == <<"i","m","a","g","e","/","p","n","g">>
UnableText ==
    <<"I"," ","w","a","s"," ","u","n","a","b","l","e"," ","t","o",
      " ","g","e","n","e","r","a","t","e"," ","a","n"," ","i","m",
      "a","g","e","."," ","T","h","e"," ","p","r","o","m","p","t",
      " ","m","a","y"," ","h","a","v","e"," ","b","e","e","n"," ",
      "r","e","j","e","c","t","e","d","."," ","P","l","e","a","s",
      "e"," ","t","r","y"," ","a","g","a","i","n"," ","w","i","t",
      "h"," ","a"," ","d","i","f","f","e","r","e","n","t"," ","p",
      "r","o","m","p","t",".">>

FallbackPrefix ==
    <<"I","'","m"," ","u","n","a","b","l","e"," ","t","o"," ","g",
      "e","n","e","r","a","t","e"," ","a","n"," ","i","m","a","g",
      "e"," ","r","i","g","h","t"," ","n","o","w","."," ","H","e",
      "r","e","'","s"," ","a"," ","r","e","s","p","o","n","s","e",
      " ","t","o"," ","y","o","u","r"," ","p","r","o","m","p","t",
      ":"," ">>

(***************************************************************************)
(* Sessions and the per-request storage client                             *)
(***************************************************************************)
NoSub == "none"
Users == {"u1", "u2"}

NoToken == "none"

\* ExtendedSession, reduced to what the router, the context and the row
\* policies read: whether a session exists, whether it has a user, the
\* user's sub, the subject named by its idToken (NoSub: no idToken), and its
\* access and refresh tokens (NoToken: absent).
MkSession(present, hasUser, sub, idToken) ==
    [present |-> present, hasUser |-> hasUser, sub |-> sub, idToken |-> idToken,
     accessToken |-> NoToken, refreshToken |-> NoToken]

NoSession == MkSession(FALSE, FALSE, NoSub, NoSub)
SessionNoUser == MkSession(TRUE, FALSE, NoSub, NoSub)
SessionNoSubject == MkSession(TRUE, TRUE, NoSub, NoSub)
UserSession(u) == MkSession(TRUE, TRUE, u, u)
TokenlessSession(u) == MkSession(TRUE, TRUE, u, NoSub)
\* A session with an idToken whose user is absent
IdTokenOnlySession(u) == MkSession(TRUE, FALSE, NoSub, u)
\* A session that also holds an access token and a refresh token
RefreshableSession(u) ==
    [UserSession(u) EXCEPT !.accessToken = "at0", !.refreshToken = "rt0"]

\* The client sends Authorization: Bearer <idToken> when the session has an
\* idToken and no Authorization header otherwise.
createSupabaseClient(session) ==
    [authorization |-> IF session.present THEN session.idToken ELSE NoSub]

\* The idToken the token endpoint issues at a refresh for the subject u, a
\* new token and so different from the one the session came with
RefreshedIdToken(u) == IF u = "u1" THEN "u1r" ELSE "u2r"

\* The sub claim of an idToken (a session's first idToken is written as its
\* subject)
TokenSub(token) ==
    IF token = "u1r" THEN "u1" ELSE IF token = "u2r" THEN "u2" ELSE token

\* auth.jwt() ->> 'sub' of the row policies
JwtSub(client) == TokenSub(client.authorization)

(***************************************************************************)
(* The relational store                                                    *)
(***************************************************************************)
NoConv == 0

MessageTypesAllowed == {"text", "image"}
RolesAllowed == {"user", "assistant"}

NullMessage ==
    [id |-> 0, content |-> <<>>, role |-> "none", message_type |-> "none",
     user_id |-> NoSub, conversation_id |-> NoConv, created_at |-> 0]

\* INSERT policy of conversations: WITH CHECK (auth.jwt() ->> 'sub' = user_id)
ConversationInsertAllowed(client, row) ==
    /\ JwtSub(client) # NoSub
    /\ JwtSub(client) = row.user_id

\* CHECK constraints, foreign key and INSERT policy of messages.  The
\* foreign key is checked against the whole conversations table: referential
\* checks are not subject to the row policies.
MessageInsertAllowed(client, row, convs) ==
    /\ row.role \in RolesAllowed
    /\ row.message_type \in MessageTypesAllowed
    /\ \E c \in convs : c.id = row.conversation_id
    /\ JwtSub(client) # NoSub
    /\ JwtSub(client) = row.user_id

\* SELECT policy: USING (auth.jwt() ->> 'sub' = user_id)
VisibleRows(client, table) ==
    {row \in table : JwtSub(client) # NoSub /\ JwtSub(client) = row.user_id}

RECURSIVE OrderAsc(_)
OrderAsc(S) ==
    IF S = {} THEN <<>>
    ELSE LET first == CHOOSE x \in S : \A y \in S : x.created_at <= y.created_at
         IN <<first>> \o OrderAsc(S \ {first})

RECURSIVE OrderDesc(_)
OrderDesc(S) ==
    IF S = {} THEN <<>>
    ELSE LET first == CHOOSE x \in S : \A y \in S : x.created_at >= y.created_at
         IN <<first>> \o OrderDesc(S \ {first})

\* .limit(n): the first n rows of the ordered result
Limit(rows, n) == SubSeq(rows, 1, IF Len(rows) < n THEN Len(rows) ELSE n)

\* The messages query with the limit of the history query
SelectMessagesLimited(client, table, convId, userId) ==
    Limit(OrderAsc({m \in VisibleRows(client, table) :
                       m.conversation_id = convId /\ m.user_id = userId}),
          HistoryLimit)

\* The messages query without the user_id filter, run past the row policies
SelectMessagesAnyOwner(client, table, convId, userId) ==
    OrderAsc({m \in table : m.conversation_id = convId})

\* from('messages').select('*').eq('conversation_id', c).eq('user_id', u)
\*   .order('created_at', { ascending: true })
SelectMessages(client, table, convId, userId) ==
    OrderAsc({m \in VisibleRows(client, table) :
                 m.conversation_id = convId /\ m.user_id = userId})

\* the history query of the plain-text branch: the same query with .limit(20)
SelectHistory(client, table, convId, userId) ==
    Limit(SelectMessages(client, table, convId, userId), HistoryLimit)

\* The conversations query ordered oldest first
SelectConversationsAscending(client, table, userId) ==
    OrderAsc({c \in VisibleRows(client, table) : c.user_id = userId})

\* from('conversations').select('*').eq('user_id', u)
\*   .order('created_at', { ascending: false })
SelectConversations(client, table, userId) ==
    OrderDesc({c \in VisibleRows(client, table) : c.user_id = userId})

RECURSIVE SeqFilterText(_)
SeqFilterText(rows) ==
    IF rows = <<>> THEN <<>>
    ELSE LET msg == Head(rows)
         IN (IF msg.message_type = "text"
             THEN <<[role |-> IF msg.role = "user" THEN "user" ELSE "model",
                     text |-> msg.content]>>
             ELSE <<>>) \o SeqFilterText(Tail(rows))

\* conversationParts: the text turns of the history, then the new message
conversationParts(history, message) ==
    SeqFilterText(history) \o <<[role |-> "user", text |-> message]>>

(***************************************************************************)
(* Model Gateway responses                                                 *)
(***************************************************************************)
\* One part of candidates[0].content.parts of an image-generation response
InlinePart(mime, data) ==
    [inline |-> TRUE, mimeType |-> mime, data |-> data, text |-> <<>>]
TextPart(text) ==
    [inline |-> FALSE, mimeType |-> <<>>, data |-> <<>>, text |-> text]

ImageResponse(ok, parts) == [ok |-> ok, parts |-> parts]

\* parts.find(part => part.inlineData?.mimeType?.startsWith('image/'))
IsImagePart(part) == part.inline /\ startsWith(part.mimeType, ImageSlash)
\* parts.find(part => part.text)
IsTextPart(part) == part.text # <<>>

HasImagePart(parts) == \E i \in 1..Len(parts) : IsImagePart(parts[i])
FindImagePart(parts) ==
    parts[CHOOSE i \in 1..Len(parts) :
             IsImagePart(parts[i]) /\ \A j \in 1..(i - 1) : ~IsImagePart(parts[j])]

HasTextPart(parts) == \E i \in 1..Len(parts) : IsTextPart(parts[i])
FindTextPart(parts) ==
    parts[CHOOSE i \in 1..Len(parts) :
             IsTextPart(parts[i]) /\ \A j \in 1..(i - 1) : ~IsTextPart(parts[j])]

Base64Chars ==
    {UpperChars[i] : i \in 1..Len(UpperChars)} \cup
    {LowerChars[i] : i \in 1..Len(LowerChars)} \cup
    {"0","1","2","3","4","5","6","7","8","9","+","/","="}

Base64TextLen == 1000

\* /^[A-Za-z0-9+/=]+$/.test(s)
IsBase64Text(s) == s # <<>> /\ \A i \in 1..Len(s) : s[i] \in Base64Chars

\* The answer of a call that has not been made or that failed
NoResponse == ImageResponse(FALSE, <<>>)

\* imageResult with the payload stored as it came, without the data URI
imageResultRawData(resp) ==
    IF HasImagePart(resp.parts)
    THEN LET p == FindImagePart(resp.parts)
         IN [content |-> p.data, type |-> "image"]
    ELSE LET textContent == IF HasTextPart(resp.parts)
                            THEN FindTextPart(resp.parts).text
                            ELSE <<>>
         IN IF /\ textContent # <<>>
               /\ Len(textContent) > Base64TextLen
               /\ IsBase64Text(trim(textContent))
            THEN [content |-> DataPrefix \o ImagePng \o Base64Infix
                                \o trim(textContent),
                  type |-> "image"]
            ELSE [content |-> IF textContent # <<>> THEN textContent
                              ELSE UnableText,
                  type |-> "text"]

\* The content and kind of the assistant message for an image-generation
\* response that arrived with an OK status.
imageResult(resp) ==
    IF HasImagePart(resp.parts)
    THEN LET p == FindImagePart(resp.parts)
         IN [content |-> DataPrefix \o p.mimeType \o Base64Infix \o p.data,
             type |-> "image"]
    ELSE LET textContent == IF HasTextPart(resp.parts)
                            THEN FindTextPart(resp.parts).text
                            ELSE <<>>
         IN IF /\ textContent # <<>>
               /\ Len(textContent) > Base64TextLen
               /\ IsBase64Text(trim(textContent))
            THEN [content |-> DataPrefix \o ImagePng \o Base64Infix
                                \o trim(textContent),
                  type |-> "image"]
            ELSE [content |-> IF textContent # <<>> THEN textContent
                              ELSE UnableText,
                  type |-> "text"]

fallbackPrompt(prompt) == FallbackPrefix \o prompt

(***************************************************************************)
(* Requests in flight                                                      *)
(***************************************************************************)
Reqs == DOMAIN req

NoResult ==
    [code |-> "none", aiMessage |-> NullMessage, conversationId |-> NoConv,
     rows |-> <<>>]

IdleReq ==
    [pc |-> "idle", proc |-> "none",
     session |-> NoSession, supabase |-> createSupabaseClient(NoSession),
     message |-> <<>>, conversationId |-> NoConv,
     imageBase64 |-> <<>>, mimeType |-> <<>>,
     currentConversationId |-> NoConv, prompt |-> <<>>,
     responseData |-> NoResponse,
     history |-> <<>>, contents |-> <<>>,
     aiResponseContent |-> <<>>, aiMessageType |-> "text",
     userMessageType |-> "text",
     connectionError |-> "none",
     refreshCalls |-> 0, newSession |-> NoSession,
     ops |-> <<>>, result |-> NoResult]

\* A call record as it stands when the procedure is entered
NewReq(proc, session, message, conversationId, imageBase64, mimeType) ==
    [IdleReq EXCEPT !.proc = proc, !.session = session,
                    !.supabase = createSupabaseClient(session),
                    !.message = message, !.conversationId = conversationId,
                    !.imageBase64 = imageBase64, !.mimeType = mimeType]

Op(name, ok) == [op |-> name, ok |-> ok]

Failed(q, code) ==
    [q EXCEPT !.pc = "done", !.result = [NoResult EXCEPT !.code = code]]

\* Authenticated without the handler's check of the sub
AuthenticatedByMiddlewareOnly(session) ==
    /\ session.present
    /\ session.hasUser

\* enforceUserIsAuthed, then the handler's own check of ctx.session.user.sub
Authenticated(session) ==
    /\ session.present
    /\ session.hasUser
    /\ session.sub # NoSub

\* Branch selection with the attachment test placed before the /image test
BranchPcAttachmentFirst(q) ==
    IF hasUploadedImage(q.imageBase64, q.mimeType) THEN "multimodal"
    ELSE IF isImageGenerationRequest(q.message) THEN "generateImage"
    ELSE "selectHistory"

\* The first await of the branch that the message selects
BranchPc(q) ==
    IF isImageGenerationRequest(q.message) THEN "generateImage"
    ELSE IF hasUploadedImage(q.imageBase64, q.mimeType) THEN "multimodal"
    ELSE "selectHistory"

\* The synchronous code between the resolution of the conversation id and
\* the first await of the branch
EnterBranch(q, convId) ==
    [q EXCEPT !.currentConversationId = convId,
              !.pc = BranchPc(q),
              !.prompt = IF isImageGenerationRequest(q.message)
                         THEN imagePrompt(q.message) ELSE <<>>]

ActiveSends == {r \in Reqs : req[r].proc = "sendMessage" /\ req[r].pc # "done"}
ActiveCreates == {r \in ActiveSends : req[r].conversationId = NoConv}

NextConversationId ==
    IF conversations = {} THEN 1
    ELSE 1 + (CHOOSE n \in {c.id : c \in conversations} :
                 \A c \in conversations : c.id <= n)

NextMessageId ==
    IF messages = {} THEN 1
    ELSE 1 + (CHOOSE n \in {m.id : m \in messages} :
                 \A m \in messages : m.id <= n)

\* The state of the chat page (HomeContent) as it is first rendered:
\* inputMessage, isGenerating, currentConversationId, the messages shown,
\* and the sendMessage mutations that have been issued and not yet answered.
UiInit ==
    [inputMessage |-> <<>>, isGenerating |-> FALSE,
     currentConversationId |-> NoConv, messages |-> <<>>, mutations |-> <<>>]

Init ==
    /\ conversations = {}
    /\ messages = {}
    /\ clock = 0
    /\ req = [r \in {1} |-> IdleReq]
    /\ ui = UiInit

(***************************************************************************)
(* sendMessage                                                             *)
(***************************************************************************)
\* The synchronous head of the handler for the call record q: middleware,
\* identity check, and the decision whether a conversation has to be created.
sendMessageEntry(q) ==
    IF ~Authenticated(q.session) THEN Failed(q, "UNAUTHORIZED")
    ELSE IF q.conversationId = NoConv
    THEN [q EXCEPT !.pc = "createConversation"]
    ELSE EnterBranch(q, q.conversationId)

\* The procedure is entered: middleware, identity check, and the decision
\* whether a conversation has to be created.
SendMessage(r, sessions, inputs, convIds, maxConvs, maxMsgs) ==
    /\ req[r].pc = "idle"
    /\ UNCHANGED ui
    /\ Cardinality(messages) + 2 * (Cardinality(ActiveSends) + 1) <= maxMsgs
    /\ \E session \in sessions, input \in inputs, conversationId \in convIds :
          LET q == NewReq("sendMessage", session, input.message, conversationId,
                          input.imageBase64, input.mimeType)
          IN /\ conversationId = NoConv =>
                  Cardinality(conversations) + Cardinality(ActiveCreates) + 1
                      <= maxConvs
             /\ req' = [req EXCEPT ![r] = sendMessageEntry(q)]
    /\ UNCHANGED <<conversations, messages, clock>>

\* The conversation looked up by caller and title before it is created: a
\* conversation of the caller with the title of the message is used again
CreateConversationFindsTitle(r, errs) ==
    /\ req[r].pc = "createConversation"
    /\ UNCHANGED ui
    /\ LET q == req[r]
           row == [id |-> NextConversationId,
                   title |-> substring0(q.message, TitleLen),
                   user_id |-> q.session.sub,
                   created_at |-> clock + 1, updated_at |-> clock + 1]
           found == {c \in conversations :
                        c.user_id = row.user_id /\ c.title = row.title}
       IN \E storageError \in errs :
             IF ~storageError /\ found # {}
             THEN /\ req' = [req EXCEPT ![r] =
                        EnterBranch(q, (CHOOSE c \in found : TRUE).id)]
                  /\ UNCHANGED <<conversations, messages, clock>>
             ELSE IF ~storageError /\ ConversationInsertAllowed(q.supabase, row)
             THEN /\ conversations' = conversations \cup {row}
                  /\ clock' = clock + 1
                  /\ req' = [req EXCEPT ![r] =
                        [EnterBranch(q, row.id) EXCEPT
                            !.ops = Append(q.ops, Op("insertConversation", TRUE))]]
                  /\ UNCHANGED messages
             ELSE /\ req' = [req EXCEPT ![r] =
                        [Failed(q, "INTERNAL_SERVER_ERROR") EXCEPT
                            !.ops = Append(q.ops, Op("insertConversation", FALSE))]]
                  /\ UNCHANGED <<conversations, messages, clock>>

\* The conversation insert attempted a second time when it fails first
CreateConversationRetry(r, errs) ==
    /\ req[r].pc = "createConversation"
    /\ UNCHANGED ui
    /\ LET q == req[r]
           row == [id |-> NextConversationId,
                   title |-> substring0(q.message, TitleLen),
                   user_id |-> q.session.sub,
                   created_at |-> clock + 1, updated_at |-> clock + 1]
       IN \E storageError \in errs :
             IF ~storageError /\ ConversationInsertAllowed(q.supabase, row)
             THEN /\ conversations' = conversations \cup {row}
                  /\ clock' = clock + 1
                  /\ req' = [req EXCEPT ![r] =
                        [EnterBranch(q, row.id) EXCEPT
                            !.ops = Append(q.ops, Op("insertConversation", TRUE))]]
                  /\ UNCHANGED messages
             ELSE /\ req' = [req EXCEPT ![r] =
                        IF q.ops = <<>>
                        THEN [q EXCEPT
                            !.ops = Append(q.ops, Op("insertConversation", FALSE))]
                        ELSE [Failed(q, "INTERNAL_SERVER_ERROR") EXCEPT
                            !.ops = Append(q.ops, Op("insertConversation", FALSE))]]
                  /\ UNCHANGED <<conversations, messages, clock>>

\* insert({ user_id, title }).select().single() on conversations
CreateConversation(r, errs) ==
    /\ req[r].pc = "createConversation"
    /\ UNCHANGED ui
    /\ LET q == req[r]
           row == [id |-> NextConversationId,
                   title |-> substring0(q.message, TitleLen),
                   user_id |-> q.session.sub,
                   created_at |-> clock + 1, updated_at |-> clock + 1]
       IN \E storageError \in errs :
             IF ~storageError /\ ConversationInsertAllowed(q.supabase, row)
             THEN /\ conversations' = conversations \cup {row}
                  /\ clock' = clock + 1
                  /\ req' = [req EXCEPT ![r] =
                        [EnterBranch(q, row.id) EXCEPT
                            !.ops = Append(q.ops, Op("insertConversation", TRUE))]]
                  /\ UNCHANGED messages
             ELSE /\ req' = [req EXCEPT ![r] =
                        [Failed(q, "INTERNAL_SERVER_ERROR") EXCEPT
                            !.ops = Append(q.ops, Op("insertConversation", FALSE))]]
                  /\ UNCHANGED <<conversations, messages, clock>>

\* The REST call to the image-generation model and the reading of its answer
GenerateImage(r, responses) ==
    /\ req[r].pc = "generateImage"
    /\ UNCHANGED ui
    /\ \E resp \in responses :
          LET q == req[r]
              res == imageResult(resp)
          IN req' = [req EXCEPT ![r] =
                IF resp.ok
                THEN [q EXCEPT !.pc = "saveUser",
                               !.responseData = resp,
                               !.aiResponseContent = res.content,
                               !.aiMessageType = res.type,
                               !.userMessageType = "image_prompt",
                               !.ops = Append(q.ops, Op("generateImage", TRUE))]
                ELSE [q EXCEPT !.pc = "fallback",
                               !.ops = Append(q.ops, Op("generateImage", FALSE))]]
    /\ UNCHANGED <<conversations, messages, clock>>

\* catch of the image branch: multiModalModel.generateContent(fallback prompt)
Fallback(r, replies, errs) ==
    /\ req[r].pc = "fallback"
    /\ UNCHANGED ui
    /\ LET q == req[r]
       IN \/ \E text \in replies :
               req' = [req EXCEPT ![r] =
                  [q EXCEPT !.pc = "saveUser",
                            !.contents = <<[role |-> "user",
                                            text |-> fallbackPrompt(q.prompt)]>>,
                            !.aiResponseContent = text,
                            !.aiMessageType = "text",
                            !.userMessageType = "image_prompt",
                            !.ops = Append(q.ops, Op("generateContent", TRUE))]]
          \/ /\ TRUE \in errs
             /\ req' = [req EXCEPT ![r] =
                  [Failed(q, "INTERNAL_SERVER_ERROR") EXCEPT
                      !.ops = Append(q.ops, Op("generateContent", FALSE))]]
    /\ UNCHANGED <<conversations, messages, clock>>

\* multiModalModel.generateContent([prompt, imagePart])
Multimodal(r, replies, errs) ==
    /\ req[r].pc = "multimodal"
    /\ UNCHANGED ui
    /\ LET q == req[r]
       IN \/ \E text \in replies :
               req' = [req EXCEPT ![r] =
                  [q EXCEPT !.pc = "saveUser",
                            !.prompt = q.message,
                            !.aiResponseContent = text,
                            !.aiMessageType = "text",
                            !.userMessageType = "image_query",
                            !.ops = Append(q.ops, Op("generateContent", TRUE))]]
          \/ /\ TRUE \in errs
             /\ req' = [req EXCEPT ![r] =
                  [Failed(q, "INTERNAL_SERVER_ERROR") EXCEPT
                      !.ops = Append(q.ops, Op("generateContent", FALSE))]]
    /\ UNCHANGED <<conversations, messages, clock>>

\* The history query of the plain-text branch and the building of
\* conversationParts; a query error leaves the history empty.
LoadHistory(r, errs) ==
    /\ req[r].pc = "selectHistory"
    /\ UNCHANGED ui
    /\ LET q == req[r]
       IN \E storageError \in errs :
             LET rows == IF storageError THEN <<>>
                         ELSE SelectHistory(q.supabase, messages,
                                            q.currentConversationId,
                                            q.session.sub)
             IN req' = [req EXCEPT ![r] =
                   [q EXCEPT !.pc = "generateText",
                             !.history = rows,
                             !.contents = conversationParts(rows, q.message),
                             !.ops = Append(q.ops,
                                            Op("selectMessages", ~storageError))]]
    /\ UNCHANGED <<conversations, messages, clock>>

\* A row of messages as the save block builds it
MessageRow(q, content, role, type) ==
    [id |-> NextMessageId, content |-> content, role |-> role,
     message_type |-> type, user_id |-> q.session.sub,
     conversation_id |-> q.currentConversationId, created_at |-> clock + 1]

\* The text branch with the user message saved before the model is called,
\* so that it stays when the call fails
GenerateTextUserSavedFirst(r, replies, errs) ==
    /\ req[r].pc = "generateText"
    /\ UNCHANGED ui
    /\ LET q == req[r]
       IN \/ /\ \E text \in replies :
                  req' = [req EXCEPT ![r] =
                     [q EXCEPT !.pc = "saveUser",
                               !.aiResponseContent = text,
                               !.aiMessageType = "text",
                               !.userMessageType = "text",
                               !.ops = Append(q.ops, Op("generateContent", TRUE))]]
             /\ UNCHANGED <<messages, clock>>
          \/ /\ TRUE \in errs
             /\ messages' = messages \cup {MessageRow(q, q.message, "user", "text")}
             /\ clock' = clock + 1
             /\ req' = [req EXCEPT ![r] =
                  [Failed(q, "INTERNAL_SERVER_ERROR") EXCEPT
                      !.ops = Append(q.ops, Op("generateContent", FALSE))]]
    /\ UNCHANGED conversations

\* multiModalModel.generateContent({ contents: conversationParts })
GenerateText(r, replies, errs) ==
    /\ req[r].pc = "generateText"
    /\ UNCHANGED ui
    /\ LET q == req[r]
       IN \/ \E text \in replies :
               req' = [req EXCEPT ![r] =
                  [q EXCEPT !.pc = "saveUser",
                            !.aiResponseContent = text,
                            !.aiMessageType = "text",
                            !.userMessageType = "text",
                            !.ops = Append(q.ops, Op("generateContent", TRUE))]]
          \/ /\ TRUE \in errs
             /\ req' = [req EXCEPT ![r] =
                  [Failed(q, "INTERNAL_SERVER_ERROR") EXCEPT
                      !.ops = Append(q.ops, Op("generateContent", FALSE))]]
    /\ UNCHANGED <<conversations, messages, clock>>

\* The first insert issued without await: the handler goes on at once and
\* the row is written when the insert lands, after the handler has returned
InsertUserMessageNotAwaited(r, errs) ==
    \/ /\ req[r].pc = "saveUser"
       /\ UNCHANGED ui
       /\ req' = [req EXCEPT ![r] = [req[r] EXCEPT !.pc = "saveAssistant"]]
       /\ UNCHANGED <<conversations, messages, clock>>
    \/ /\ req[r].pc = "done"
       /\ UNCHANGED ui
       /\ req[r].proc = "sendMessage"
       /\ req[r].aiResponseContent # <<>>
       /\ \A i \in 1..Len(req[r].ops) : req[r].ops[i].op # "insertUserMessage"
       /\ LET q == req[r]
              row == MessageRow(q, q.message, "user", q.userMessageType)
          IN \E storageError \in errs :
                IF ~storageError
                   /\ MessageInsertAllowed(q.supabase, row, conversations)
                THEN /\ messages' = messages \cup {row}
                     /\ clock' = clock + 1
                     /\ req' = [req EXCEPT ![r] =
                           [q EXCEPT !.ops = Append(q.ops,
                                         Op("insertUserMessage", TRUE))]]
                ELSE /\ req' = [req EXCEPT ![r] =
                           [q EXCEPT !.ops = Append(q.ops,
                                         Op("insertUserMessage", FALSE))]]
                     /\ UNCHANGED <<messages, clock>>
       /\ UNCHANGED conversations

\* The first insert with the conversation's update timestamp moved to the
\* time of the new message
InsertUserMessageTouchConversation(r, errs) ==
    /\ req[r].pc = "saveUser"
    /\ UNCHANGED ui
    /\ LET q == req[r]
           row == MessageRow(q, q.message, "user", q.userMessageType)
       IN \E storageError \in errs :
             IF ~storageError /\ MessageInsertAllowed(q.supabase, row, conversations)
             THEN /\ messages' = messages \cup {row}
                  /\ clock' = clock + 1
                  /\ conversations' =
                        {IF c.id = q.currentConversationId
                         THEN [c EXCEPT !.updated_at = clock + 1] ELSE c :
                            c \in conversations}
                  /\ req' = [req EXCEPT ![r] =
                        [q EXCEPT !.pc = "saveAssistant",
                                  !.ops = Append(q.ops, Op("insertUserMessage", TRUE))]]
             ELSE /\ req' = [req EXCEPT ![r] =
                        [q EXCEPT !.pc = "saveAssistant",
                                  !.ops = Append(q.ops, Op("insertUserMessage", FALSE))]]
                  /\ UNCHANGED <<conversations, messages, clock>>

\* The first insert of the save block; its result is not looked at.
InsertUserMessage(r, errs) ==
    /\ req[r].pc = "saveUser"
    /\ UNCHANGED ui
    /\ LET q == req[r]
           row == MessageRow(q, q.message, "user", q.userMessageType)
       IN \E storageError \in errs :
             IF ~storageError /\ MessageInsertAllowed(q.supabase, row, conversations)
             THEN /\ messages' = messages \cup {row}
                  /\ clock' = clock + 1
                  /\ req' = [req EXCEPT ![r] =
                        [q EXCEPT !.pc = "saveAssistant",
                                  !.ops = Append(q.ops, Op("insertUserMessage", TRUE))]]
             ELSE /\ req' = [req EXCEPT ![r] =
                        [q EXCEPT !.pc = "saveAssistant",
                                  !.ops = Append(q.ops, Op("insertUserMessage", FALSE))]]
                  /\ UNCHANGED <<messages, clock>>
    /\ UNCHANGED conversations

\* The second insert with a compensation: when it fails the user message of
\* the request is deleted again.
InsertAssistantMessageRollback(r, errs) ==
    /\ req[r].pc = "saveAssistant"
    /\ UNCHANGED ui
    /\ LET q == req[r]
           row == MessageRow(q, q.aiResponseContent, "assistant", q.aiMessageType)
       IN \E storageError \in errs :
             IF ~storageError /\ MessageInsertAllowed(q.supabase, row, conversations)
             THEN /\ messages' = messages \cup {row}
                  /\ clock' = clock + 1
                  /\ req' = [req EXCEPT ![r] =
                        [q EXCEPT !.pc = "done",
                                  !.result = [NoResult EXCEPT
                                      !.code = "OK", !.aiMessage = row,
                                      !.conversationId = q.currentConversationId],
                                  !.ops = Append(q.ops,
                                                 Op("insertAssistantMessage", TRUE))]]
             ELSE /\ req' = [req EXCEPT ![r] =
                        [Failed(q, "INTERNAL_SERVER_ERROR") EXCEPT
                            !.ops = Append(q.ops,
                                           Op("insertAssistantMessage", FALSE))]]
                  /\ messages' = {m \in messages :
                                     ~(/\ m.role = "user"
                                       /\ m.content = q.message
                                       /\ m.conversation_id = q.currentConversationId
                                       /\ m.created_at = clock)}
                  /\ UNCHANGED clock
    /\ UNCHANGED conversations

\* The second insert, with .select().single(); its error is thrown.
InsertAssistantMessage(r, errs) ==
    /\ req[r].pc = "saveAssistant"
    /\ UNCHANGED ui
    /\ LET q == req[r]
           row == MessageRow(q, q.aiResponseContent, "assistant", q.aiMessageType)
       IN \E storageError \in errs :
             IF ~storageError /\ MessageInsertAllowed(q.supabase, row, conversations)
             THEN /\ messages' = messages \cup {row}
                  /\ clock' = clock + 1
                  /\ req' = [req EXCEPT ![r] =
                        [q EXCEPT !.pc = "done",
                                  !.result = [NoResult EXCEPT
                                      !.code = "OK", !.aiMessage = row,
                                      !.conversationId = q.currentConversationId],
                                  !.ops = Append(q.ops,
                                                 Op("insertAssistantMessage", TRUE))]]
             ELSE /\ req' = [req EXCEPT ![r] =
                        [Failed(q, "INTERNAL_SERVER_ERROR") EXCEPT
                            !.ops = Append(q.ops,
                                           Op("insertAssistantMessage", FALSE))]]
                  /\ UNCHANGED <<messages, clock>>
    /\ UNCHANGED conversations

(***************************************************************************)
(* getConversations, getMessages                                           *)
(***************************************************************************)
\* getConversations answering a failed query with the empty list
getConversationsEmptyOnError(q, storageError) ==
    IF ~Authenticated(q.session) THEN Failed(q, "UNAUTHORIZED")
    ELSE [q EXCEPT !.pc = "done",
                   !.ops = Append(q.ops, Op("selectConversations", ~storageError)),
                   !.result = [NoResult EXCEPT
                       !.code = "OK",
                       !.rows = IF storageError THEN <<>>
                                ELSE SelectConversations(
                                         q.supabase, conversations,
                                         q.session.sub)]]

\* The whole getConversations handler for the call record q; storageError
\* is the outcome of its one query.
getConversations(q, storageError) ==
    IF ~Authenticated(q.session) THEN Failed(q, "UNAUTHORIZED")
    ELSE IF storageError
    THEN [Failed(q, "INTERNAL_SERVER_ERROR") EXCEPT
             !.ops = Append(q.ops, Op("selectConversations", FALSE))]
    ELSE [q EXCEPT !.pc = "done",
                   !.ops = Append(q.ops, Op("selectConversations", TRUE)),
                   !.result = [NoResult EXCEPT
                       !.code = "OK",
                       !.rows = SelectConversations(
                           q.supabase, conversations, q.session.sub)]]

GetConversations(r, sessions, errs) ==
    /\ req[r].pc = "idle"
    /\ UNCHANGED ui
    /\ \E session \in sessions, storageError \in errs :
          LET q == NewReq("getConversations", session, <<>>, NoConv, <<>>, <<>>)
          IN req' = [req EXCEPT ![r] = getConversations(q, storageError)]
    /\ UNCHANGED <<conversations, messages, clock>>

\* The whole getMessages handler for the call record q
getMessages(q, storageError) ==
    IF ~Authenticated(q.session) THEN Failed(q, "UNAUTHORIZED")
    ELSE IF storageError
    THEN [Failed(q, "INTERNAL_SERVER_ERROR") EXCEPT
             !.ops = Append(q.ops, Op("selectMessages", FALSE))]
    ELSE [q EXCEPT !.pc = "done",
                   !.ops = Append(q.ops, Op("selectMessages", TRUE)),
                   !.result = [NoResult EXCEPT
                       !.code = "OK",
                       !.rows = SelectMessages(
                           q.supabase, messages, q.conversationId,
                           q.session.sub)]]

GetMessages(r, sessions, convIds, errs) ==
    /\ req[r].pc = "idle"
    /\ UNCHANGED ui
    /\ \E session \in sessions, conversationId \in convIds,
          storageError \in errs :
          LET q == NewReq("getMessages", session, <<>>, conversationId, <<>>, <<>>)
          IN req' = [req EXCEPT ![r] = getMessages(q, storageError)]
    /\ UNCHANGED <<conversations, messages, clock>>

(***************************************************************************)
(* createTRPCContext: the session, the storage client, the connection test *)
(* and the session refresh that precede every procedure call               *)
(***************************************************************************)
\* The body of the token endpoint's answer
TokenData(id_token, access_token, refresh_token) ==
    [id_token |-> id_token, access_token |-> access_token,
     refresh_token |-> refresh_token]

\* An answer of the token endpoint: the fetch throws, or answers with a
\* status that is OK or not, and with a body.
TokenAnswer(status, data) == [status |-> status, data |-> data]

\* refreshSession taking the refresh token of the answer also when the
\* answer has none
refreshSessionTakesAnyRefreshToken(session, answer) ==
    IF ~session.present \/ session.refreshToken = NoToken THEN NoSession
    ELSE IF answer.status # "ok" THEN NoSession
    ELSE [session EXCEPT
             !.idToken = answer.data.id_token,
             !.accessToken = answer.data.access_token,
             !.refreshToken = answer.data.refresh_token]

\* refreshSession: null (NoSession) unless the session read anew has a
\* refresh token and the token endpoint answers OK; then the session with
\* its tokens replaced, the refresh token only if a new one was issued.
refreshSession(session, answer) ==
    IF ~session.present \/ session.refreshToken = NoToken THEN NoSession
    ELSE IF answer.status # "ok" THEN NoSession
    ELSE [session EXCEPT
             !.idToken = answer.data.id_token,
             !.accessToken = answer.data.access_token,
             !.refreshToken = IF answer.data.refresh_token # NoToken
                              THEN answer.data.refresh_token
                              ELSE session.refreshToken]

\* session?.idToken
HasIdToken(session) == session.present /\ session.idToken # NoSub

\* createTRPCContext without the early return of the connection test
CreateTRPCContextAlwaysTests(r, sessions) ==
    /\ req[r].pc = "idle"
    /\ UNCHANGED ui
    /\ \E session \in sessions :
          req' = [req EXCEPT ![r] =
             [IdleReq EXCEPT !.session = session,
                             !.supabase = createSupabaseClient(session),
                             !.pc = "testConnection"]]
    /\ UNCHANGED <<conversations, messages, clock>>

\* getSession and createSupabaseClient; testSupabaseConnection returns at
\* once when the session has no idToken.
CreateTRPCContext(r, sessions) ==
    /\ req[r].pc = "idle"
    /\ UNCHANGED ui
    /\ \E session \in sessions :
          req' = [req EXCEPT ![r] =
             [IdleReq EXCEPT !.session = session,
                             !.supabase = createSupabaseClient(session),
                             !.pc = IF HasIdToken(session)
                                    THEN "testConnection"
                                    ELSE "ctxReady"]]
    /\ UNCHANGED <<conversations, messages, clock>>

\* client.from('conversations').select('*').limit(1) and the reading of its
\* error; outcome is "ok", "PGRST301", "error" or "throw".  connectionError
\* keeps what the test observed ("none": no error).
TestSupabaseConnection(r, outcomes) ==
    /\ req[r].pc = "testConnection"
    /\ UNCHANGED ui
    /\ \E outcome \in outcomes :
          LET q == req[r]
          IN req' = [req EXCEPT ![r] =
                [q EXCEPT !.pc = IF /\ outcome = "PGRST301"
                                    /\ q.session.refreshToken # NoToken
                                 THEN "refreshSession"
                                 ELSE "ctxReady",
                          !.connectionError = IF outcome = "ok" THEN "none"
                                              ELSE outcome,
                          !.ops = Append(q.ops,
                                         Op("testConnection", outcome = "ok"))]]
    /\ UNCHANGED <<conversations, messages, clock>>

\* The refresh with the session replaced and the client left as it was
\* built, from the session before the refresh
RefreshSessionKeepsClient(r, answers, readFailures) ==
    /\ req[r].pc = "refreshSession"
    /\ UNCHANGED ui
    /\ \E answer \in answers, readFails \in readFailures :
          LET q == req[r]
              session == IF readFails THEN NoSession ELSE q.session
              asked == session.present /\ session.refreshToken # NoToken
              newSession == refreshSession(session, answer)
          IN /\ TokenSub(answer.data.id_token)
                   \in {NoSub, TokenSub(q.session.idToken)}
             /\ req' = [req EXCEPT ![r] =
                   [q EXCEPT !.pc = "ctxReady",
                             !.refreshCalls = q.refreshCalls + 1,
                             !.newSession = newSession,
                             !.session = IF HasIdToken(newSession)
                                         THEN newSession ELSE q.session,
                             !.ops = IF asked
                                     THEN Append(q.ops,
                                                 Op("refreshToken",
                                                    answer.status = "ok"))
                                     ELSE q.ops]]
    /\ UNCHANGED <<conversations, messages, clock>>

\* refreshSession(req, res) and the replacement of client and session when
\* the new session has an idToken.  refreshSession reads the session anew:
\* getSession gives the session of the request again, or null when the
\* reading fails; the token endpoint is asked only if that session has a
\* refresh token, and it issues id tokens for the subject of the session.
\* refreshCalls counts the calls, newSession keeps what the call returned.
RefreshSession(r, answers, readFailures) ==
    /\ req[r].pc = "refreshSession"
    /\ UNCHANGED ui
    /\ \E answer \in answers, readFails \in readFailures :
          LET q == req[r]
              session == IF readFails THEN NoSession ELSE q.session
              asked == session.present /\ session.refreshToken # NoToken
              newSession == refreshSession(session, answer)
          IN /\ TokenSub(answer.data.id_token)
                   \in {NoSub, TokenSub(q.session.idToken)}
             /\ req' = [req EXCEPT ![r] =
                   [q EXCEPT !.pc = "ctxReady",
                             !.refreshCalls = q.refreshCalls + 1,
                             !.newSession = newSession,
                             !.session = IF HasIdToken(newSession)
                                         THEN newSession ELSE q.session,
                             !.supabase = IF HasIdToken(newSession)
                                          THEN createSupabaseClient(newSession)
                                          ELSE q.supabase,
                             !.ops = IF asked
                                     THEN Append(q.ops,
                                                 Op("refreshToken",
                                                    answer.status = "ok"))
                                     ELSE q.ops]]
    /\ UNCHANGED <<conversations, messages, clock>>

\* The call record of a procedure that runs in the context held by q
InContext(q, proc, message, conversationId, imageBase64, mimeType) ==
    [q EXCEPT !.proc = proc, !.message = message,
              !.conversationId = conversationId,
              !.imageBase64 = imageBase64, !.mimeType = mimeType]

SendMessageInContext(r, inputs, convIds, maxConvs, maxMsgs) ==
    /\ req[r].pc = "ctxReady"
    /\ UNCHANGED ui
    /\ Cardinality(messages) + 2 * (Cardinality(ActiveSends) + 1) <= maxMsgs
    /\ \E input \in inputs, conversationId \in convIds :
          LET q == InContext(req[r], "sendMessage", input.message,
                             conversationId, input.imageBase64, input.mimeType)
          IN /\ conversationId = NoConv =>
                  Cardinality(conversations) + Cardinality(ActiveCreates) + 1
                      <= maxConvs
             /\ req' = [req EXCEPT ![r] = sendMessageEntry(q)]
    /\ UNCHANGED <<conversations, messages, clock>>

GetConversationsInContext(r, errs) ==
    /\ req[r].pc = "ctxReady"
    /\ UNCHANGED ui
    /\ \E storageError \in errs :
          LET q == InContext(req[r], "getConversations", <<>>, NoConv, <<>>, <<>>)
          IN req' = [req EXCEPT ![r] = getConversations(q, storageError)]
    /\ UNCHANGED <<conversations, messages, clock>>

GetMessagesInContext(r, convIds, errs) ==
    /\ req[r].pc = "ctxReady"
    /\ UNCHANGED ui
    /\ \E conversationId \in convIds, storageError \in errs :
          LET q == InContext(req[r], "getMessages", <<>>, conversationId,
                             <<>>, <<>>)
          IN req' = [req EXCEPT ![r] = getMessages(q, storageError)]
    /\ UNCHANGED <<conversations, messages, clock>>

\* The response has been delivered; the slot serves the next request.
Return(r) ==
    /\ req[r].pc = "done"
    /\ UNCHANGED ui
    /\ req' = [req EXCEPT ![r] = IdleReq]
    /\ UNCHANGED <<conversations, messages, clock>>

(***************************************************************************)
(* Inputs and outcomes the model draws from                                *)
(***************************************************************************)
MsgEmpty == <<>>
MsgPlain == <<"h","i">>
MsgLong == Rep("x", TitleLen) \o <<"y">>
MsgImage == SlashImage \o <<" ","c">>
MsgImageLead == <<" ","/","I","m","a","g","e"," ","c"," ">>

TxtOk == <<"o","k">>
PngData == <<"A","B">>
TxtPlain == <<"t","e","x","t","/","p","l","a","i","n">>

Sessions ==
    {NoSession, SessionNoUser, SessionNoSubject}
        \cup {UserSession(u) : u \in Users}
Input(message, imageBase64, mimeType) ==
    [message |-> message, imageBase64 |-> imageBase64, mimeType |-> mimeType]
Inputs ==
    {Input(MsgEmpty, <<>>, <<>>),
     Input(MsgLong, <<>>, <<>>),
     Input(MsgLong, PngData, ImagePng),
     Input(MsgLong, PngData, <<>>),
     Input(MsgImage, <<>>, <<>>),
     Input(MsgImageLead, PngData, ImagePng)}
ConvIds == {NoConv} \cup (1..MaxConvs)
ImageResponses ==
    {ImageResponse(TRUE, <<TextPart(TxtOk), InlinePart(ImagePng, PngData)>>),
     ImageResponse(TRUE, <<InlinePart(TxtPlain, PngData), TextPart(TxtOk)>>),
     ImageResponse(TRUE, <<TextPart(Rep("A", Base64TextLen + 1))>>),
     ImageResponse(TRUE, <<TextPart(Rep("A", Base64TextLen) \o <<" ">>)>>),
     ImageResponse(TRUE, <<>>),
     ImageResponse(FALSE, <<>>)}
Replies == {TxtOk}

StorageOutcomes == BOOLEAN

\* One request is handled at a time.
Next ==
    \E r \in Reqs :
        \/ SendMessage(r, Sessions, Inputs, ConvIds, MaxConvs, MaxMsgs)
        \/ CreateConversation(r, StorageOutcomes)
        \/ GenerateImage(r, ImageResponses)
        \/ Fallback(r, Replies, StorageOutcomes)
        \/ Multimodal(r, Replies, StorageOutcomes)
        \/ LoadHistory(r, StorageOutcomes)
        \/ GenerateText(r, Replies, StorageOutcomes)
        \/ InsertUserMessage(r, StorageOutcomes)
        \/ InsertAssistantMessage(r, StorageOutcomes)
        \/ GetConversations(r, Sessions, StorageOutcomes)
        \/ GetMessages(r, Sessions, ConvIds \ {NoConv}, StorageOutcomes)
        \/ Return(r)

Spec == Init /\ [][Next]_vars

(***************************************************************************)
(* One caller, and sessions without a caller identity: every procedure,    *)
(* every branch of sendMessage, every answer of the image model and every  *)
(* failure, with short messages.                                           *)
(***************************************************************************)
SoloSessions ==
    {NoSession, SessionNoUser, SessionNoSubject, UserSession("u1")}
SoloInputs ==
    {Input(MsgPlain, <<>>, <<>>),
     Input(MsgPlain, PngData, ImagePng),
     Input(MsgPlain, PngData, <<>>),
     Input(MsgImage, <<>>, <<>>),
     Input(MsgImageLead, PngData, ImagePng)}

NextSolo ==
    \E r \in Reqs :
        \/ SendMessage(r, SoloSessions, SoloInputs, ConvIds, MaxConvs, MaxMsgs)
        \/ GetConversations(r, SoloSessions, StorageOutcomes)
        \/ GetMessages(r, SoloSessions, ConvIds \ {NoConv}, StorageOutcomes)
        \/ CreateConversation(r, StorageOutcomes)
        \/ GenerateImage(r, ImageResponses)
        \/ Fallback(r, Replies, StorageOutcomes)
        \/ Multimodal(r, Replies, StorageOutcomes)
        \/ LoadHistory(r, StorageOutcomes)
        \/ GenerateText(r, Replies, StorageOutcomes)
        \/ InsertUserMessage(r, StorageOutcomes)
        \/ InsertAssistantMessage(r, StorageOutcomes)
        \/ Return(r)

SpecSolo == Init /\ [][NextSolo]_vars

(***************************************************************************)
(* Long conversations: one caller, no failures, enough messages for the    *)
(* history limit to take effect.  The conversation is opened by a text     *)
(* message or an /image message and continued with text messages.          *)
(***************************************************************************)
MsgOther == <<"y","o">>
DeepTextInputs == {Input(MsgPlain, <<>>, <<>>), Input(MsgOther, <<>>, <<>>)}
DeepInputs == DeepTextInputs \cup {Input(MsgImage, <<>>, <<>>)}
DeepImageResponses ==
    {ImageResponse(TRUE, <<InlinePart(ImagePng, PngData)>>)}
NoFailure == {FALSE}

NextDeep ==
    \E r \in Reqs :
        \/ SendMessage(r, {UserSession("u1")}, DeepInputs, {NoConv},
                       1, DeepMaxMsgs)
        \/ SendMessage(r, {UserSession("u1")}, DeepTextInputs, {1},
                       1, DeepMaxMsgs)
        \/ GetMessages(r, {UserSession("u1")}, {1}, NoFailure)
        \/ CreateConversation(r, NoFailure)
        \/ GenerateImage(r, DeepImageResponses)
        \/ LoadHistory(r, NoFailure)
        \/ GenerateText(r, Replies, NoFailure)
        \/ InsertUserMessage(r, NoFailure)
        \/ InsertAssistantMessage(r, NoFailure)
        \/ Return(r)

SpecDeep == Init /\ [][NextDeep]_vars

(***************************************************************************)
(* Whole requests: context creation, then the procedure.  Short messages,  *)
(* two callers, several conversations.                                     *)
(***************************************************************************)
CtxMaxConvs == 2
CtxMaxMsgs == 2

CtxSessions ==
    {NoSession, SessionNoUser, IdTokenOnlySession("u1"), TokenlessSession("u1"),
     UserSession("u1"), RefreshableSession("u1"), RefreshableSession("u2")}
CtxInputs == {Input(MsgPlain, <<>>, <<>>)}
CtxConvIds == {NoConv} \cup (1..CtxMaxConvs)
ConnectionOutcomes == {"ok", "PGRST301", "error", "throw"}
SessionReadOutcomes == BOOLEAN
TokenAnswers ==
    {TokenAnswer("throw", TokenData(NoSub, NoToken, NoToken)),
     TokenAnswer("notOk", TokenData(NoSub, NoToken, NoToken)),
     TokenAnswer("ok", TokenData(NoSub, "at1", NoToken))}
        \cup {TokenAnswer("ok", TokenData(RefreshedIdToken(u), "at1", rt)) :
                 u \in Users, rt \in {NoToken, "rt1"}}

NextCtx ==
    \E r \in Reqs :
        \/ CreateTRPCContext(r, CtxSessions)
        \/ TestSupabaseConnection(r, ConnectionOutcomes)
        \/ RefreshSession(r, TokenAnswers, SessionReadOutcomes)
        \/ SendMessageInContext(r, CtxInputs, CtxConvIds, CtxMaxConvs, CtxMaxMsgs)
        \/ GetConversationsInContext(r, StorageOutcomes)
        \/ GetMessagesInContext(r, CtxConvIds \ {NoConv}, StorageOutcomes)
        \/ CreateConversation(r, StorageOutcomes)
        \/ LoadHistory(r, StorageOutcomes)
        \/ GenerateText(r, Replies, StorageOutcomes)
        \/ InsertUserMessage(r, StorageOutcomes)
        \/ InsertAssistantMessage(r, StorageOutcomes)
        \/ Return(r)

SpecCtx == Init /\ [][NextCtx]_vars

(***************************************************************************)
(* Concurrent requests: the server handles two sendMessage calls whose     *)
(* awaits interleave in every order, the second call entering at any       *)
(* point of the first, also after its end.  Two callers, two texts,        *)
(* plain-text branch, every failure.                                       *)
(***************************************************************************)
Slots == {1, 2}
\* Each call creates at most one conversation and writes at most two rows.
ConcMaxConvs == Cardinality(Slots)
ConcMaxMsgs == 2 * Cardinality(Slots)
ConcSessions == {UserSession(u) : u \in Users}
ConcInputs == {Input(MsgPlain, <<>>, <<>>), Input(MsgOther, <<>>, <<>>)}
ConcConvIds == {NoConv, 1}

InitConc ==
    /\ conversations = {}
    /\ messages = {}
    /\ clock = 0
    /\ req = [r \in Slots |-> IdleReq]
    /\ ui = UiInit

NextConc ==
    \E r \in Reqs :
        \/ SendMessage(r, ConcSessions, ConcInputs, ConcConvIds,
                       ConcMaxConvs, ConcMaxMsgs)
        \/ CreateConversation(r, StorageOutcomes)
        \/ LoadHistory(r, StorageOutcomes)
        \/ GenerateText(r, Replies, StorageOutcomes)
        \/ InsertUserMessage(r, StorageOutcomes)
        \/ InsertAssistantMessage(r, StorageOutcomes)

SpecConc == InitConc /\ [][NextConc]_vars

(***************************************************************************)
(* Two callers, one after the other, sending text into the one             *)
(* conversation of the store.                                              *)
(***************************************************************************)
SharedMaxMsgs == 3

NextShared ==
    \E r \in Reqs :
        \/ SendMessage(r, ConcSessions, CtxInputs, ConcConvIds,
                       MaxConvs, SharedMaxMsgs)
        \/ CreateConversation(r, StorageOutcomes)
        \/ LoadHistory(r, StorageOutcomes)
        \/ GenerateText(r, Replies, StorageOutcomes)
        \/ InsertUserMessage(r, StorageOutcomes)
        \/ InsertAssistantMessage(r, StorageOutcomes)
        \/ Return(r)

SpecShared == Init /\ [][NextShared]_vars

(***************************************************************************)
(* The chat page: what the user does with the input, the send and          *)
(* generate-image buttons, the Enter key, the new-chat button and the      *)
(* conversation list, and the answers of the sendMessage mutations.        *)
(***************************************************************************)
UiMaxMutations == 2
UiMaxShown == 3

MsgBlank == <<" ">>
UiTexts == {MsgEmpty, MsgBlank, MsgPlain}
UiConvIds == {1, 2}
NewChatText ==
    <<"N","e","w"," ","c","h","a","t"," ","s","t","a","r","t","e","d">>

\* sendMessageMutation.mutate(variables)
Mutate(u, message, conversationId) ==
    [u EXCEPT !.mutations = Append(u.mutations,
                 [message |-> message, conversationId |-> conversationId])]

Shown(content, role, type) ==
    [content |-> content, role |-> role, message_type |-> type]

\* What is shown and what is to come fits the page of the model
UiRoom(n) == Len(ui.messages) + Len(ui.mutations) + n <= UiMaxShown

\* onChange of the input, which is disabled while a response is generated
TypeInput(texts) ==
    /\ ~ui.isGenerating
    /\ \E text \in texts :
          /\ text # ui.inputMessage
          /\ ui' = [ui EXCEPT !.inputMessage = text]
    /\ UNCHANGED <<conversations, messages, clock, req>>

\* handleSendMessage with the page state u
handleSendMessage(u) ==
    IF trim(u.inputMessage) = <<>> \/ u.isGenerating THEN u
    ELSE Mutate([u EXCEPT !.isGenerating = TRUE,
                          !.inputMessage = <<>>,
                          !.messages = Append(u.messages,
                              Shown(u.inputMessage, "user", "text"))],
                u.inputMessage, u.currentConversationId)

\* The send button is clicked
HandleSendMessage ==
    /\ UiRoom(2)
    /\ ui' = handleSendMessage(ui)
    /\ UNCHANGED <<conversations, messages, clock, req>>

\* handleKeyPress for the Enter key without shift
HandleKeyPress ==
    /\ UiRoom(2)
    /\ ui' = handleSendMessage(ui)
    /\ UNCHANGED <<conversations, messages, clock, req>>

\* handleGenerateImage, and generateImage with the /image command
HandleGenerateImage ==
    /\ UiRoom(2)
    /\ ui' = IF trim(ui.inputMessage) = <<>> \/ ui.isGenerating THEN ui
             ELSE Mutate([ui EXCEPT !.isGenerating = TRUE,
                                    !.inputMessage = <<>>,
                                    !.messages = Append(ui.messages,
                                        Shown(ui.inputMessage, "user",
                                              "image_prompt"))],
                         SlashImage \o <<" ">> \o ui.inputMessage,
                         ui.currentConversationId)
    /\ UNCHANGED <<conversations, messages, clock, req>>

\* createNewChat, the onClick of the new-chat button
CreateNewChat ==
    /\ UiRoom(1)
    /\ Len(ui.mutations) < UiMaxMutations
    /\ ui' = Mutate(ui, NewChatText, NoConv)
    /\ UNCHANGED <<conversations, messages, clock, req>>

\* selectConversation
SelectConversation(convIds) ==
    /\ \E conversationId \in convIds :
          /\ conversationId # ui.currentConversationId
          /\ ui' = [ui EXCEPT !.currentConversationId = conversationId]
    /\ UNCHANGED <<conversations, messages, clock, req>>

\* onSuccess of a mutation: the answer names the conversation of the call,
\* a new one when the call named none
MutationSucceeds(convIds, types) ==
    /\ \E i \in 1..Len(ui.mutations), conversationId \in convIds,
          type \in types :
          LET m == ui.mutations[i]
          IN /\ m.conversationId # NoConv => conversationId = m.conversationId
             /\ ui' = [ui EXCEPT
                   !.messages = Append(ui.messages,
                                       Shown(TxtOk, "assistant", type)),
                   !.currentConversationId = conversationId,
                   !.isGenerating = FALSE,
                   !.mutations = SubSeq(ui.mutations, 1, i - 1)
                                 \o SubSeq(ui.mutations, i + 1,
                                           Len(ui.mutations))]
    /\ UNCHANGED <<conversations, messages, clock, req>>

\* onError of a mutation
MutationFails ==
    /\ \E i \in 1..Len(ui.mutations) :
          ui' = [ui EXCEPT
                   !.isGenerating = FALSE,
                   !.mutations = SubSeq(ui.mutations, 1, i - 1)
                                 \o SubSeq(ui.mutations, i + 1,
                                           Len(ui.mutations))]
    /\ UNCHANGED <<conversations, messages, clock, req>>

NextUi ==
    \/ TypeInput(UiTexts)
    \/ HandleSendMessage
    \/ HandleKeyPress
    \/ HandleGenerateImage
    \/ CreateNewChat
    \/ SelectConversation(UiConvIds)
    \/ MutationSucceeds(UiConvIds, MessageTypesAllowed)
    \/ MutationFails

SpecUi == Init /\ [][NextUi]_vars

(***************************************************************************)
(* Helpers of the properties                                               *)
(***************************************************************************)
SendReqs == {r \in Reqs : req[r].proc = "sendMessage"}
Succeeded(r) == req[r].pc = "done" /\ req[r].result.code = "OK"

Turn(row) ==
    [role |-> IF row.role = "user" THEN "user" ELSE "model", text |-> row.content]
Turns(rows) == [i \in 1..Len(rows) |-> Turn(rows[i])]
LastN(rows, n) ==
    SubSeq(rows, IF Len(rows) > n THEN Len(rows) - n + 1 ELSE 1, Len(rows))

\* The caller's messages of kind text in the conversation of request r,
\* in ascending creation order
PriorText(r) ==
    OrderAsc({m \in messages :
                 /\ m.conversation_id = req[r].currentConversationId
                 /\ m.user_id = req[r].session.sub
                 /\ m.message_type = "text"})

\* The history read of request r has been answered without error and the
\* dialogue for the text-generation call is built.
HistoryRead(r) ==
    /\ req[r].proc = "sendMessage"
    /\ req[r].pc = "generateText"
    /\ req[r].ops[Len(req[r].ops)] = Op("selectMessages", TRUE)

NewTurn(r) == <<[role |-> "user", text |-> req[r].message]>>

\* What getMessages answers the caller of request r for the conversation
\* the request resolved to
ReadBack(r) ==
    SelectMessages(req[r].supabase, messages, req[r].result.conversationId,
                   req[r].session.sub)

OpsNamed(r, names) == SelectSeq(req[r].ops, LAMBDA o : o.op \in names)

(***************************************************************************)
(* C1: with more than 20 prior text messages, the dialogue passed to the   *)
(* text-generation call is the 20 most recent of them, oldest first,       *)
(* followed by the new message.                                            *)
(***************************************************************************)
C1_MostRecentTwenty ==
    \A r \in Reqs :
        (HistoryRead(r) /\ Len(PriorText(r)) > HistoryLimit)
            => req[r].contents =
                 Turns(LastN(PriorText(r), HistoryLimit)) \o NewTurn(r)

(***************************************************************************)
(* C2: with N <= 20 prior text messages, whatever the number of prior      *)
(* non-text messages, the dialogue is exactly those N messages in          *)
(* ascending creation order, roles mapped, followed by the new message.    *)
(***************************************************************************)
C2_AllPriorText ==
    \A r \in Reqs :
        (HistoryRead(r) /\ Len(PriorText(r)) <= HistoryLimit)
            => req[r].contents = Turns(PriorText(r)) \o NewTurn(r)

(***************************************************************************)
(* C3: after a successful sendMessage, getMessages by the same caller on   *)
(* the returned conversation returns the user message (content the input,  *)
(* role user, kind of the branch) and the returned assistant message, the  *)
(* user message first.                                                     *)
(***************************************************************************)
C3_RoundTrip ==
    \A r \in SendReqs :
        Succeeded(r) =>
            LET rows == ReadBack(r)
            IN \E i, j \in 1..Len(rows) :
                  /\ i < j
                  /\ rows[i].content = req[r].message
                  /\ rows[i].role = "user"
                  /\ rows[i].message_type = req[r].userMessageType
                  /\ rows[j] = req[r].result.aiMessage
                  /\ rows[j].role = "assistant"

(***************************************************************************)
(* C4: sendMessage never returns a success result when one of its two      *)
(* message writes failed.                                                  *)
(***************************************************************************)
C4_NoSuccessAfterFailedWrite ==
    \A r \in SendReqs :
        Succeeded(r) =>
            /\ Op("insertUserMessage", FALSE) \notin
                   {req[r].ops[i] : i \in 1..Len(req[r].ops)}
            /\ Op("insertAssistantMessage", FALSE) \notin
                   {req[r].ops[i] : i \in 1..Len(req[r].ops)}

(***************************************************************************)
(* C5: every message's user_id equals the user_id of the conversation its  *)
(* conversation_id references.                                             *)
(***************************************************************************)
C5_MessageOwnerIsConversationOwner ==
    \A m \in messages : \A c \in conversations :
        c.id = m.conversation_id => c.user_id = m.user_id

(***************************************************************************)
(* C6: a call of sendMessage, getConversations or getMessages whose        *)
(* context has no session, or a session without a user identity, fails     *)
(* with UNAUTHORIZED and issues no storage operation, so that it inserts   *)
(* no conversation row and no message row.                                 *)
(***************************************************************************)
NoCallerIdentity(session) ==
    \/ ~session.present
    \/ ~session.hasUser
    \/ session.sub = NoSub

C6_UnauthenticatedRejected ==
    \A r \in Reqs :
        (req[r].proc # "none" /\ NoCallerIdentity(req[r].session))
            => /\ req[r].pc = "done"
               /\ req[r].result.code = "UNAUTHORIZED"
               /\ req[r].ops = <<>>
               /\ \A c \in conversations : c.user_id # req[r].session.sub
               /\ \A m \in messages : m.user_id # req[r].session.sub

C6_Witness ==
    \E r \in Reqs :
        /\ req[r].proc = "sendMessage"
        /\ req[r].session = SessionNoSubject
        /\ req[r].conversationId \in {c.id : c \in conversations}
        /\ req[r].pc = "done"
        /\ req[r].result.code = "UNAUTHORIZED"

(***************************************************************************)
(* C7: for every message whose trimmed, case-folded text starts with       *)
(* /image, the prompt forwarded to image generation is the input with the  *)
(* leading /image token and the whitespace following it removed, and the   *)
(* user message is persisted with kind image_prompt.                       *)
(***************************************************************************)
\* The input without surrounding whitespace, its first six characters (the
\* token) and the whitespace after them
PromptOfClaim(message) ==
    LET t == trim(message)
    IN trimStart(SubSeq(t, Len(SlashImage) + 1, Len(t)))

UserRowPersisted(r, type) ==
    \E m \in messages :
        /\ m.conversation_id = req[r].currentConversationId
        /\ m.user_id = req[r].session.sub
        /\ m.role = "user"
        /\ m.content = req[r].message
        /\ m.message_type = type

C7_ImagePrompt ==
    \A r \in SendReqs :
        isImageGenerationRequest(req[r].message) =>
            /\ req[r].pc \in {"generateImage", "fallback", "saveUser", "saveAssistant"}
                   => req[r].prompt = PromptOfClaim(req[r].message)
            /\ Succeeded(r) => UserRowPersisted(r, "image_prompt")

(***************************************************************************)
(* C8: a sendMessage without conversationId creates exactly one            *)
(* conversation, owned by the caller and titled with the first 50          *)
(* characters of the message, before any message row of the request is     *)
(* written; both messages of the request are written against the new id,   *)
(* which is the conversationId returned.                                   *)
(***************************************************************************)
IsPrefixOfLen(title, message, n) ==
    /\ Len(title) = (IF Len(message) < n THEN Len(message) ELSE n)
    /\ \A i \in 1..Len(title) : title[i] = message[i]

C8_NewConversationFirst ==
    \A r \in SendReqs :
        (Succeeded(r) /\ req[r].conversationId = NoConv) =>
            LET id == req[r].result.conversationId
            IN /\ req[r].ops[1] = Op("insertConversation", TRUE)
               /\ Len(OpsNamed(r, {"insertConversation"})) = 1
               /\ id = req[r].currentConversationId
               /\ \E c \in conversations :
                     /\ c.id = id
                     /\ c.user_id = req[r].session.sub
                     /\ IsPrefixOfLen(c.title, req[r].message, TitleLen)
                     /\ \A m \in messages :
                           m.conversation_id = id => m.created_at > c.created_at
               /\ \E m \in messages :
                     /\ m.conversation_id = id
                     /\ m.role = "user"
                     /\ m.content = req[r].message
               /\ req[r].result.aiMessage \in messages
               /\ req[r].result.aiMessage.conversation_id = id

(***************************************************************************)
(* C9: sendMessage with an empty message fails, and it creates no          *)
(* conversation, calls no model and writes no message row.                 *)
(***************************************************************************)
C9_EmptyMessageRejected ==
    \A r \in SendReqs :
        req[r].message = <<>> =>
            /\ req[r].pc = "done"
            /\ req[r].result.code # "OK"
            /\ req[r].ops = <<>>

(***************************************************************************)
(* C10: a successful sendMessage makes exactly two message writes, the     *)
(* user message (kind of the branch) and then the assistant message, both  *)
(* against the resolved conversation id and the caller's user_id, and      *)
(* returns the persisted assistant message with that conversation id.      *)
(***************************************************************************)
C10_TwoWritesInOrder ==
    \A r \in SendReqs :
        Succeeded(r) =>
            LET ai == req[r].result.aiMessage
            IN /\ OpsNamed(r, {"insertUserMessage", "insertAssistantMessage"})
                     = <<Op("insertUserMessage", TRUE),
                         Op("insertAssistantMessage", TRUE)>>
               /\ \E m \in messages :
                     /\ m.conversation_id = req[r].currentConversationId
                     /\ m.user_id = req[r].session.sub
                     /\ m.role = "user"
                     /\ m.content = req[r].message
                     /\ m.message_type = req[r].userMessageType
                     /\ m.created_at < ai.created_at
               /\ ai \in messages
               /\ ai.role = "assistant"
               /\ ai.user_id = req[r].session.sub
               /\ ai.conversation_id = req[r].currentConversationId
               /\ req[r].result.conversationId = req[r].currentConversationId

(***************************************************************************)
(* C11: when the image-generation response contains an inline image        *)
(* payload with MIME type m and data d, the assistant message that         *)
(* sendMessage persists and returns has content data:m;base64,d and kind   *)
(* image.                                                                  *)
(***************************************************************************)
DataUri(m, d) ==
    <<"d","a","t","a",":">> \o m \o <<";","b","a","s","e","6","4",",">> \o d

\* The inline payloads of a response whose MIME type is an image type
InlineImages(resp) ==
    SelectSeq(resp.parts,
              LAMBDA part : part.inline /\ Len(part.mimeType) >= 6
                            /\ SubSeq(part.mimeType, 1, 6)
                                  = <<"i","m","a","g","e","/">>)

ImageDelivered(r) ==
    /\ r \in SendReqs
    /\ Succeeded(r)
    /\ req[r].responseData.ok
    /\ InlineImages(req[r].responseData) # <<>>

C11_InlineImageDataUri ==
    \A r \in Reqs :
        ImageDelivered(r) =>
            LET payload == Head(InlineImages(req[r].responseData))
                aiMessage == req[r].result.aiMessage
            IN /\ aiMessage.content = DataUri(payload.mimeType, payload.data)
               /\ aiMessage.message_type = "image"
               /\ aiMessage.role = "assistant"
               /\ aiMessage \in messages

C11_Witness ==
    \E r \in Reqs :
        /\ ImageDelivered(r)
        /\ req[r].result.aiMessage.content
              = <<"d","a","t","a",":","i","m","a","g","e","/","p","n","g",
                  ";","b","a","s","e","6","4",",","A","B">>

(***************************************************************************)
(* C12: exactly one dispatch branch runs per request, chosen in precedence *)
(* order: a message that starts with /image goes to image generation even  *)
(* with an attachment; otherwise a message with both an image payload and  *)
(* a MIME type goes to multimodal understanding (user kind image_query,    *)
(* assistant kind text); otherwise the plain-text branch runs (both kinds  *)
(* text).                                                                  *)
(***************************************************************************)
IsImageCommand(message) ==
    LET t == toLowerCase(trim(message))
    IN Len(t) >= 6 /\ SubSeq(t, 1, 6) = <<"/","i","m","a","g","e">>

HasAttachment(q) == q.imageBase64 # <<>> /\ q.mimeType # <<>>

ExpectedBranch(q) ==
    IF IsImageCommand(q.message) THEN "image"
    ELSE IF HasAttachment(q) THEN "attachment"
    ELSE "text"

\* The calls of request r after the conversation was resolved
BranchOps(r) == SelectSeq(req[r].ops, LAMBDA o : o.op # "insertConversation")

\* The branches request r is in or has been through, read off its position
\* and the calls it issued: image generation starts with the image call,
\* the plain-text branch with the history read, the attachment branch with
\* the multimodal call.
BranchesRun(r) ==
    LET first == IF BranchOps(r) = <<>> THEN "none" ELSE BranchOps(r)[1].op
        names == {req[r].ops[i].op : i \in 1..Len(req[r].ops)}
    IN (IF \/ req[r].pc \in {"generateImage", "fallback"}
           \/ "generateImage" \in names
        THEN {"image"} ELSE {})
       \cup
       (IF req[r].pc = "multimodal" \/ first = "generateContent"
        THEN {"attachment"} ELSE {})
       \cup
       (IF \/ req[r].pc \in {"selectHistory", "generateText"}
           \/ "selectMessages" \in names
        THEN {"text"} ELSE {})

\* Request r has left the resolution of its conversation behind
Dispatched(r) ==
    /\ r \in SendReqs
    /\ req[r].currentConversationId # NoConv

\* The model answered and the kinds of the two messages are fixed
KindsFixed(r) ==
    \/ req[r].pc \in {"saveUser", "saveAssistant"}
    \/ Succeeded(r)

C12_OneBranchInPrecedenceOrder ==
    \A r \in Reqs :
        /\ Dispatched(r) =>
              /\ BranchesRun(r) = {ExpectedBranch(req[r])}
              /\ KindsFixed(r) /\ ExpectedBranch(req[r]) = "attachment" =>
                    /\ req[r].userMessageType = "image_query"
                    /\ req[r].aiMessageType = "text"
              /\ KindsFixed(r) /\ ExpectedBranch(req[r]) = "text" =>
                    /\ req[r].userMessageType = "text"
                    /\ req[r].aiMessageType = "text"
        /\ r \in SendReqs /\ ~Dispatched(r) => BranchesRun(r) = {}

\* An /image message that came with an attachment was answered by image
\* generation.
C12_Witness ==
    \E r \in Reqs :
        /\ Dispatched(r)
        /\ Succeeded(r)
        /\ IsImageCommand(req[r].message)
        /\ HasAttachment(req[r])
        /\ req[r].result.aiMessage.message_type = "image"

(***************************************************************************)
(* C13: the identity check is the first work done for a request: no        *)
(* Conversation Store operation and no Model Gateway call is issued before *)
(* the check has passed, and a request without a user identity triggers    *)
(* none at all.                                                            *)
(***************************************************************************)
\* The Conversation Store operations and Model Gateway calls of request r
StoreAndGatewayOps(r) ==
    SelectSeq(req[r].ops, LAMBDA o : o.op # "refreshToken")

\* The context of request r is being built or is built, and the procedure
\* has not been entered: the identity check is still to come.
BeforeIdentityCheck(r) ==
    req[r].pc \in {"testConnection", "refreshSession", "ctxReady"}

\* The procedure of request r found no user identity
IdentityCheckFailed(r) ==
    /\ req[r].proc # "none"
    /\ NoCallerIdentity(req[r].session)

C13_IdentityCheckFirst ==
    \A r \in Reqs :
        BeforeIdentityCheck(r) \/ IdentityCheckFailed(r) =>
            StoreAndGatewayOps(r) = <<>>

(***************************************************************************)
(* C13, amended: before the identity check has passed, and for a request   *)
(* without a user identity at any time, no Model Gateway call and no       *)
(* Conversation Store write is issued; the only store operation is the     *)
(* one read of the connection test of the context, made exactly when the   *)
(* session carries an idToken.  A request without a user identity ends     *)
(* Unauthenticated.                                                        *)
(***************************************************************************)
OnlyConnectionTest(r) ==
    LET w == StoreAndGatewayOps(r)
    IN /\ Len(w) <= 1
       /\ \A i \in 1..Len(w) : w[i].op = "testConnection"
       /\ w # <<>> =>
             req[r].session.present /\ req[r].session.idToken # NoSub
       /\ /\ req[r].pc # "testConnection"
          /\ req[r].session.present
          /\ req[r].session.idToken # NoSub
          => Len(w) = 1

C13_OnlyConnectionTestBeforeIdentityCheck ==
    \A r \in Reqs :
        /\ BeforeIdentityCheck(r) => OnlyConnectionTest(r)
        /\ IdentityCheckFailed(r) =>
              /\ OnlyConnectionTest(r)
              /\ req[r].pc = "done"
              /\ req[r].result.code = "UNAUTHORIZED"

\* A request whose session has an idToken and no user was rejected after
\* the connection test had read the store.
C13_Witness ==
    \E r \in Reqs :
        /\ IdentityCheckFailed(r)
        /\ req[r].result.code = "UNAUTHORIZED"
        /\ StoreAndGatewayOps(r) = <<Op("testConnection", TRUE)>>

(***************************************************************************)
(* C14: getConversations and getMessages return only rows whose user_id is *)
(* the caller's identity, and the history that the plain-text branch of    *)
(* sendMessage hands to the Model Gateway is made of such rows only,       *)
(* whatever other callers have done.                                       *)
(***************************************************************************)
OwnedBy(rows, u) == \A i \in 1..Len(rows) : rows[i].user_id = u

\* The rows of kind text among rows, as dialogue turns
TextTurnsOf(rows) ==
    Turns(SelectSeq(rows, LAMBDA m : m.message_type = "text"))

HasCredential(r) ==
    /\ req[r].session.present
    /\ req[r].session.idToken # NoSub
    /\ TokenSub(req[r].session.idToken) = req[r].session.sub

RowsOf(rows) == {rows[i] : i \in 1..Len(rows)}

ConversationsListed(r) ==
    /\ req[r].proc = "getConversations"
    /\ Succeeded(r)
    /\ HasCredential(r)

MessagesListed(r) ==
    /\ req[r].proc = "getMessages"
    /\ Succeeded(r)
    /\ HasCredential(r)

C16_AllMessagesOldestFirst ==
    \A r \in Reqs :
        MessagesListed(r) =>
            LET rows == req[r].result.rows
                own == {m \in messages :
                           /\ m.conversation_id = req[r].conversationId
                           /\ m.user_id = req[r].session.sub}
            IN /\ RowsOf(rows) = own
               /\ Len(rows) = Cardinality(own)
               /\ \A i, j \in 1..Len(rows) :
                     i < j => rows[i].created_at < rows[j].created_at

\* More than 20 messages were listed, one of them not of kind text
C16_Witness ==
    \E r \in Reqs :
        /\ MessagesListed(r)
        /\ Len(req[r].result.rows) > 20
        /\ \E i \in 1..Len(req[r].result.rows) :
              req[r].result.rows[i].message_type = "image"

(***************************************************************************)
(* C17: getConversations and getMessages fail with INTERNAL_SERVER_ERROR   *)
(* whenever their storage read reports an error, instead of returning a    *)
(* partial or empty list, and they never write to storage, whether they    *)
(* fail or succeed.                                                        *)
(***************************************************************************)
ReadProcs == {"getConversations", "getMessages"}

\* The query of the read request r was issued and reported an error
ReadFailed(r) ==
    /\ req[r].proc \in ReadProcs
    /\ req[r].ops # <<>>
    /\ req[r].ops[Len(req[r].ops)] \in
          {Op("selectConversations", FALSE), Op("selectMessages", FALSE)}

ReadErrorIsInternalFailure ==
    \A r \in Reqs :
        /\ ReadFailed(r) =>
              /\ req[r].pc = "done"
              /\ req[r].result.code = "INTERNAL_SERVER_ERROR"
              /\ req[r].result.rows = <<>>
        /\ req[r].proc \in ReadProcs /\ Succeeded(r) =>
              req[r].ops[Len(req[r].ops)] \in
                  {Op("selectConversations", TRUE), Op("selectMessages", TRUE)}

\* A step in which a read procedure runs leaves the tables as they are
ReadStepWritesNothing ==
    \A r \in Reqs :
        req[r].proc = "none" /\ req'[r].proc \in ReadProcs =>
            UNCHANGED <<conversations, messages, clock>>

C17_ReadsFailOnStorageError ==
    [](ReadErrorIsInternalFailure) /\ [][ReadStepWritesNothing]_vars

\* A listing of conversations failed while the caller had a conversation
C17_Witness ==
    \E r \in Reqs :
        /\ ReadFailed(r)
        /\ req[r].proc = "getConversations"
        /\ \E c \in conversations : c.user_id = req[r].session.sub

(***************************************************************************)
(* C18: when in sendMessage the user-message write succeeds and the        *)
(* assistant-message write then fails, the call fails with                 *)
(* INTERNAL_SERVER_ERROR and the user message stays persisted with no      *)
(* paired assistant message; no later step of this or any other request    *)
(* deletes or repairs it.                                                  *)
(***************************************************************************)
\* The user message of request r was written and its assistant message was
\* refused.
HalfSaved(r) ==
    /\ r \in SendReqs
    /\ Op("insertUserMessage", TRUE) \in RowsOf(req[r].ops)
    /\ req[r].ops[Len(req[r].ops)] = Op("insertAssistantMessage", FALSE)

\* The user rows that request r wrote
UserRowsOf(r) ==
    {m \in messages :
        /\ m.role = "user"
        /\ m.content = req[r].message
        /\ m.user_id = req[r].session.sub
        /\ m.conversation_id = req[r].currentConversationId}

HalfSavedStaysOrphaned ==
    \A r \in Reqs :
        HalfSaved(r) =>
            /\ req[r].pc = "done"
            /\ req[r].result.code = "INTERNAL_SERVER_ERROR"
            /\ \E u \in UserRowsOf(r) :
                  \A m \in messages :
                      m.conversation_id = u.conversation_id =>
                          m.created_at <= u.created_at

\* Rows are only added, and only by the save steps of a request, which add
\* that request's own user or assistant message.
OnlySavesAddRows ==
    /\ messages \subseteq messages'
    /\ \A m \in messages' \ messages :
          \E r \in Reqs :
              /\ req[r].pc \in {"saveUser", "saveAssistant"}
              /\ m.conversation_id = req[r].currentConversationId
              /\ m.user_id = req[r].session.sub
              /\ m.content = IF req[r].pc = "saveUser" THEN req[r].message
                              ELSE req[r].aiResponseContent
              /\ m.role = IF req[r].pc = "saveUser" THEN "user" ELSE "assistant"

C18_OrphanedUserMessageStays ==
    [](HalfSavedStaysOrphaned) /\ [][OnlySavesAddRows]_vars

C18_Witness ==
    \E r \in Reqs :
        /\ HalfSaved(r)
        /\ req[r].result.code = "INTERNAL_SERVER_ERROR"
        /\ UserRowsOf(r) # {}

(***************************************************************************)
(* C19: when the image-generation call raises an error, sendMessage makes  *)
(* exactly one further call, to the text model about the failed prompt,    *)
(* and persists its reply as an assistant message of kind text, with the   *)
(* user message of kind image_prompt; if the fallback call fails too,      *)
(* sendMessage fails with INTERNAL_SERVER_ERROR and writes no message row. *)
(***************************************************************************)
GatewayOps(r) == OpsNamed(r, {"generateImage", "generateContent"})

\* The image-generation call of request r raised an error and the fallback
\* call has been answered or has failed
FellBack(r) ==
    /\ r \in SendReqs
    /\ Op("generateImage", FALSE) \in RowsOf(req[r].ops)
    /\ req[r].pc # "fallback"

IsSuffix(t, s) ==
    Len(t) <= Len(s) /\ SubSeq(s, Len(s) - Len(t) + 1, Len(s)) = t

FallbackCalledOnce ==
    \A r \in Reqs :
        FellBack(r) =>
            /\ Len(GatewayOps(r)) = 2
            /\ GatewayOps(r)[1] = Op("generateImage", FALSE)
            /\ GatewayOps(r)[2].op = "generateContent"
            /\ GatewayOps(r)[2].ok =>
                  /\ Len(req[r].contents) = 1
                  /\ IsSuffix(req[r].prompt, req[r].contents[1].text)

FallbackReplyPersisted ==
    \A r \in Reqs :
        FellBack(r) /\ Succeeded(r) =>
            /\ req[r].result.aiMessage \in messages
            /\ req[r].result.aiMessage.role = "assistant"
            /\ req[r].result.aiMessage.message_type = "text"
            /\ req[r].result.aiMessage.content = req[r].aiResponseContent
            /\ UserRowPersisted(r, "image_prompt")

FallbackFailureWritesNothing ==
    \A r \in Reqs :
        FellBack(r) /\ ~GatewayOps(r)[2].ok =>
            /\ req[r].pc = "done"
            /\ req[r].result.code = "INTERNAL_SERVER_ERROR"
            /\ OpsNamed(r, {"insertUserMessage", "insertAssistantMessage"}) = <<>>

C19_ImageErrorFallback ==
    /\ FallbackCalledOnce
    /\ FallbackReplyPersisted
    /\ FallbackFailureWritesNothing

(***************************************************************************)
(* C20: within one sendMessage request no failed call is issued again: the *)
(* conversation insert, each of the two message inserts and the history    *)
(* read are attempted at most once, and the Model Gateway is called at     *)
(* most once, except that a failed image-generation call is followed by    *)
(* exactly one text-generation fallback call.                              *)
(***************************************************************************)
AtMostOnce(r, name) == Len(OpsNamed(r, {name})) <= 1

\* No call of request r that failed is followed by a call of the same name
NoReissue(r) ==
    \A i, j \in 1..Len(req[r].ops) :
        i < j /\ ~req[r].ops[i].ok => req[r].ops[j].op # req[r].ops[i].op

C20_NoCallReissued ==
    \A r \in SendReqs :
        /\ NoReissue(r)
        /\ AtMostOnce(r, "insertConversation")
        /\ AtMostOnce(r, "insertUserMessage")
        /\ AtMostOnce(r, "insertAssistantMessage")
        /\ AtMostOnce(r, "selectMessages")
        /\ LET g == GatewayOps(r)
           IN \/ Len(g) <= 1 /\ (g = <<Op("generateImage", FALSE)>> =>
                                    req[r].pc = "fallback")
              \/ /\ Len(g) = 2
                 /\ g[1] = Op("generateImage", FALSE)
                 /\ g[2].op = "generateContent"

\* A request went through a failed image call, its one fallback call and a
\* refused user insert, each issued once, and succeeded.
C20_Witness ==
    \E r \in SendReqs :
        /\ Succeeded(r)
        /\ req[r].ops = <<Op("insertConversation", TRUE),
                          Op("generateImage", FALSE),
                          Op("generateContent", TRUE),
                          Op("insertUserMessage", FALSE),
                          Op("insertAssistantMessage", TRUE)>>

(***************************************************************************)
(* C21: the store is append-only: no step of sendMessage, getConversations,*)
(* getMessages or context creation changes a field of an existing message  *)
(* or conversation or deletes a row; sendMessage on an existing            *)
(* conversation leaves the conversation's row as it was.                   *)
(***************************************************************************)
\* Every row that exists before a step exists after it with every field as
\* it was, and no id is given to a second row.
RowsKept ==
    /\ conversations \subseteq conversations'
    /\ messages \subseteq messages'
    /\ \A c, d \in conversations' : c.id = d.id => c = d
    /\ \A m, n \in messages' : m.id = n.id => m = n

C21_AppendOnly == [][RowsKept]_vars

\* A message was sent into a conversation that existed before the request
\* and the conversation still has the timestamps of its creation.
C21_Witness ==
    \E r \in SendReqs :
        /\ Succeeded(r)
        /\ req[r].conversationId # NoConv
        /\ \E c \in conversations :
              /\ c.id = req[r].conversationId
              /\ c.updated_at = c.created_at
              /\ c.created_at < req[r].result.aiMessage.created_at

(***************************************************************************)
(* C22: context loading never fails the request and never writes: in the   *)
(* plain-text branch, when the conversation has no messages, does not      *)
(* exist for the caller, or the history read reports an error, the         *)
(* dialogue passed to the model is just the new message as a single user   *)
(* turn, and the store is unchanged by the read.                           *)
(***************************************************************************)
\* The conversation of request r has no messages, or is not a conversation
\* of r's caller, or the history read of r reported an error
NoContextFor(r) ==
    LET q == req[r]
    IN \/ ~\E m \in messages : m.conversation_id = q.currentConversationId
       \/ ~\E c \in conversations :
               /\ c.id = q.currentConversationId
               /\ c.user_id = q.session.sub
       \/ Op("selectMessages", FALSE) \in RowsOf(q.ops)

EmptyContextIsNewTurn ==
    \A r \in SendReqs :
        req[r].pc = "generateText" /\ NoContextFor(r) =>
            req[r].contents = NewTurn(r)

\* The step of the history read goes on to the model call and leaves the
\* store alone
HistoryReadIsSafe ==
    \A r \in Reqs :
        req[r].pc = "selectHistory" /\ req'[r] # req[r] =>
            /\ req'[r].pc = "generateText"
            /\ UNCHANGED <<conversations, messages, clock>>

C22_ContextLoadingNeverFails ==
    [](EmptyContextIsNewTurn) /\ [][HistoryReadIsSafe]_vars

(***************************************************************************)
(* C23: for an image-generation response without an inline image part, the *)
(* assistant message kind is image exactly when the response text is       *)
(* longer than 1000 characters and consists only of base64-alphabet        *)
(* characters, the content then being data:image/png;base64,<text>; in     *)
(* every other case, a response without text included, the kind is text    *)
(* and the content is the returned text or the fixed explanation; the      *)
(* user message kind is image_prompt in all of these cases.                *)
(***************************************************************************)
\* The image-generation call of request r was answered with an OK status
\* by a response without an inline image part
AnsweredWithoutImage(r) ==
    /\ r \in SendReqs
    /\ req[r].pc = "saveUser"
    /\ OpsNamed(r, {"generateImage"}) = <<Op("generateImage", TRUE)>>
    /\ ~HasImagePart(req[r].responseData.parts)

ResponseText(r) ==
    IF HasTextPart(req[r].responseData.parts)
    THEN FindTextPart(req[r].responseData.parts).text
    ELSE <<>>

LooksLikeBase64(text) ==
    /\ Len(text) > Base64TextLen
    /\ \A i \in 1..Len(text) : text[i] \in Base64Chars

C23_Base64TextIsImage ==
    \A r \in Reqs :
        AnsweredWithoutImage(r) =>
            /\ req[r].userMessageType = "image_prompt"
            /\ IF LooksLikeBase64(ResponseText(r))
               THEN /\ req[r].aiMessageType = "image"
                    /\ req[r].aiResponseContent =
                          DataPrefix \o ImagePng \o Base64Infix \o ResponseText(r)
               ELSE /\ req[r].aiMessageType = "text"
                    /\ req[r].aiResponseContent =
                          IF ResponseText(r) # <<>> THEN ResponseText(r)
                          ELSE UnableText

(***************************************************************************)
(* C24: when the connection test of context creation reports an expired    *)
(* credential (PGRST301) and the session cannot be refreshed, because      *)
(* refreshSession returns null or because the session has no refresh       *)
(* token, in which case refreshSession is not called, createTRPCContext    *)
(* returns a context whose session is null.                                *)
(***************************************************************************)
\* The context of request r is complete, its connection test reported an
\* expired credential, and no refresh succeeded
ExpiredAndNotRefreshed(r) ==
    /\ req[r].pc = "ctxReady"
    /\ req[r].connectionError = "PGRST301"
    /\ req[r].refreshCalls > 0 => ~req[r].newSession.present

C24_UnrefreshedSessionIsNull ==
    \A r \in Reqs :
        ExpiredAndNotRefreshed(r) =>
            /\ ~req[r].session.present
            /\ req[r].session.refreshToken = NoToken =>
                  req[r].refreshCalls = 0

(***************************************************************************)
(* C25: the context returned by createTRPCContext pairs the session with a *)
(* storage client built from that same session: the client carries         *)
(* Authorization: Bearer <idToken> of the returned session, and no         *)
(* Authorization header when the returned session has no idToken; after an *)
(* expired-credential error followed by a successful refresh, session and  *)
(* client are replaced together by the refreshed session and a client      *)
(* carrying the refreshed idToken; the refresh is attempted at most once   *)
(* per request.                                                            *)
(***************************************************************************)
\* createTRPCContext has returned the context of request r
ContextReturned(r) ==
    req[r].pc \notin {"idle", "testConnection", "refreshSession"}

\* The client of request r carries the idToken of r's session, or no
\* Authorization header when that session has none
ClientOfSession(r) ==
    req[r].supabase.authorization =
        IF req[r].session.present /\ req[r].session.idToken # NoSub
        THEN req[r].session.idToken
        ELSE NoSub

\* refreshSession was called for request r after an expired-credential
\* error and returned a session with an idToken
RefreshSucceeded(r) ==
    /\ req[r].connectionError = "PGRST301"
    /\ req[r].refreshCalls > 0
    /\ req[r].newSession.present
    /\ req[r].newSession.idToken # NoSub

C25_SessionAndClientPaired ==
    \A r \in Reqs :
        /\ req[r].refreshCalls <= 1
        /\ req[r].refreshCalls > 0 => req[r].connectionError = "PGRST301"
        /\ ContextReturned(r) =>
              /\ ClientOfSession(r)
              /\ RefreshSucceeded(r) =>
                    /\ req[r].session = req[r].newSession
                    /\ req[r].supabase.authorization = req[r].newSession.idToken

\* A context was returned after a successful refresh: session and client
\* carry the idToken issued at the refresh.
C25_Witness ==
    \E r \in Reqs :
        /\ req[r].pc = "ctxReady"
        /\ RefreshSucceeded(r)
        /\ req[r].session.idToken = RefreshedIdToken(req[r].session.sub)
        /\ req[r].session.accessToken = "at1"
        /\ req[r].supabase.authorization = RefreshedIdToken(req[r].session.sub)

(***************************************************************************)
(* C26: refreshSession never throws and returns null in every failure      *)
(* case: when the current session has no refresh token it returns null     *)
(* without issuing any token-endpoint request; when the token endpoint     *)
(* answers with a non-OK status or the request fails it returns null; only *)
(* on an OK answer does it return the prior session with idToken and       *)
(* accessToken replaced by the new ones and the refresh token replaced     *)
(* only if a new one was issued.                                           *)
(***************************************************************************)
\* The bodies the token endpoint answers with
TokenBodies == {a.data : a \in TokenAnswers}

\* The session s with the tokens of the body data, its refresh token taken
\* from data when data has one
WithTokens(s, data) ==
    [present |-> s.present, hasUser |-> s.hasUser, sub |-> s.sub,
     idToken |-> data.id_token,
     accessToken |-> data.access_token,
     refreshToken |-> IF data.refresh_token = NoToken THEN s.refreshToken
                      ELSE data.refresh_token]

\* The step of request r in which refreshSession is called and returns
RefreshReturns(r) ==
    LET prior == req[r].session
        returned == req'[r].newSession
        requests == OpsNamed(r, {"refreshToken"})
        requests2 == SelectSeq(req'[r].ops, LAMBDA o : o.op = "refreshToken")
    IN /\ req'[r].pc = "ctxReady"
       /\ req'[r].result = NoResult
       /\ requests = <<>>
       /\ \/ /\ requests2 = <<>>
             /\ returned = NoSession
          \/ /\ requests2 = <<Op("refreshToken", FALSE)>>
             /\ prior.refreshToken # NoToken
             /\ returned = NoSession
          \/ /\ requests2 = <<Op("refreshToken", TRUE)>>
             /\ prior.refreshToken # NoToken
             /\ \E data \in TokenBodies : returned = WithTokens(prior, data)

C26_RefreshSessionNullOnFailure ==
    [][\A r \in Reqs :
          req[r].pc = "refreshSession" /\ req'[r] # req[r] => RefreshReturns(r)]_vars

\* refreshSession returned the session with a new idToken and access token
\* and the refresh token it had, the answer carrying none.
C26_Witness ==
    \E r \in Reqs :
        /\ req[r].pc = "ctxReady"
        /\ OpsNamed(r, {"refreshToken"}) = <<Op("refreshToken", TRUE)>>
        /\ req[r].newSession.present
        /\ req[r].newSession.idToken = RefreshedIdToken(req[r].newSession.sub)
        /\ req[r].newSession.accessToken = "at1"
        /\ req[r].newSession.refreshToken = "rt0"

(***************************************************************************)
(* C27: in the chat page at most one sendMessage mutation is outstanding   *)
(* at any time: while a response is being generated, neither the send      *)
(* action, the generate-image action, the Enter key nor the new-chat       *)
(* action issues another sendMessage mutation, and an empty or             *)
(* whitespace-only input never issues one.                                 *)
(***************************************************************************)
\* The step issues a sendMessage mutation
MutationIssued == Len(ui'.mutations) > Len(ui.mutations)

C27_OneMutationOutstanding ==
    /\ [](Len(ui.mutations) <= 1)
    /\ [][MutationIssued =>
             /\ ~ui.isGenerating
             /\ ui.mutations = <<>>
             /\ trim(ui.inputMessage) # <<>>]_vars

(***************************************************************************)
(* C28: under any interleaving of concurrent sendMessage requests on the   *)
(* same conversation, each request's user message is written before that   *)
(* request's assistant message, and both carry that request's caller       *)
(* identity and resolved conversation id; the strict user/assistant        *)
(* alternation of a conversation's messages in creation order holds when   *)
(* requests to the conversation are handled one at a time and all writes   *)
(* succeed.                                                                *)
(***************************************************************************)
\* The step writes the row of request r that the successful insert named
\* name adds: one new row, of the given role and content, carrying the
\* caller's identity and the conversation id the request resolved
WritesOwnRow(r, name, role, content) ==
    req'[r].ops = Append(req[r].ops, Op(name, TRUE)) =>
        /\ req[r].currentConversationId # NoConv
        /\ req[r].conversationId # NoConv =>
              req[r].currentConversationId = req[r].conversationId
        /\ \E m \in messages' :
              /\ messages' = messages \cup {m}
              /\ m \notin messages
              /\ m.role = role
              /\ m.content = content
              /\ m.user_id = req[r].session.sub
              /\ m.conversation_id = req[r].currentConversationId
              /\ \A n \in messages : n.created_at < m.created_at

\* The user message of r is written while r has not written its assistant
\* message
UserBeforeAssistant(r) ==
    /\ WritesOwnRow(r, "insertUserMessage", "user", req[r].message)
    /\ req'[r].ops = Append(req[r].ops, Op("insertUserMessage", TRUE)) =>
          OpsNamed(r, {"insertAssistantMessage"}) = <<>>
    /\ WritesOwnRow(r, "insertAssistantMessage", "assistant",
                    req[r].aiResponseContent)
    /\ req'[r].ops = Append(req[r].ops, Op("insertAssistantMessage", TRUE)) =>
          OpsNamed(r, {"insertUserMessage"}) # <<>>

\* At most one request is being handled
OneAtATime ==
    Cardinality({r \in Reqs : req[r].pc \notin {"idle", "done"}}) <= 1

\* No insert of any request has failed
NoFailedWrite ==
    \A r \in Reqs :
        \A i \in 1..Len(req[r].ops) :
            req[r].ops[i].op \in {"insertConversation", "insertUserMessage",
                                  "insertAssistantMessage"}
                => req[r].ops[i].ok

\* The messages of every conversation, in creation order, are user,
\* assistant, user, assistant, ...
Alternates ==
    \A c \in conversations :
        LET rows == OrderAsc({m \in messages : m.conversation_id = c.id})
        IN \A i \in 1..Len(rows) :
              rows[i].role = IF i % 2 = 1 THEN "user" ELSE "assistant"

C28_OwnMessagesInOrder ==
    /\ [][\A r \in Reqs : UserBeforeAssistant(r)]_vars
    /\ [](OneAtATime /\ NoFailedWrite) => [](Alternates)

\* Two requests on one conversation were interleaved: both succeeded, and
\* the conversation holds their two user messages before their two
\* assistant messages.
C28_Witness ==
    \E r, s \in SendReqs :
        /\ r # s
        /\ Succeeded(r) /\ Succeeded(s)
        /\ req[r].currentConversationId = req[s].currentConversationId
        /\ LET rows == OrderAsc({m \in messages :
                          m.conversation_id = req[r].currentConversationId})
           IN /\ Len(rows) = 4
              /\ rows[1].role = "user" /\ rows[2].role = "user"
              /\ rows[3].role = "assistant" /\ rows[4].role = "assistant"
              /\ rows[4] = req[s].result.aiMessage

(***************************************************************************)
(* C29: when sendMessage fails in the Model Gateway step (text generation, *)
(* multimodal understanding, or image generation and its fallback), no     *)
(* message row is written for that request, not even the user-authored     *)
(* message; a conversation created earlier in the same request is not      *)
(* removed and remains with no messages.                                   *)
(***************************************************************************)
\* Request r has failed in its call of the model: the last call it made is
\* a text, multimodal or fallback call that failed
GatewayStepFailed(r) ==
    /\ r \in SendReqs
    /\ req[r].pc = "done"
    /\ req[r].ops # <<>>
    /\ req[r].ops[Len(req[r].ops)] = Op("generateContent", FALSE)

\* The conversation that request r created is in the store as created and
\* has no messages
CreatedConversationEmpty(r) ==
    /\ \E c \in conversations :
          /\ c.id = req[r].currentConversationId
          /\ c.user_id = req[r].session.sub
          /\ c.title = substring0(req[r].message, TitleLen)
          /\ c.updated_at = c.created_at
    /\ ~\E m \in messages : m.conversation_id = req[r].currentConversationId

C29_GatewayFailureWritesNoMessage ==
    /\ [](\A r \in Reqs :
             GatewayStepFailed(r) =>
                /\ req[r].result.code = "INTERNAL_SERVER_ERROR"
                /\ OpsNamed(r, {"insertUserMessage",
                                "insertAssistantMessage"}) = <<>>
                /\ Op("insertConversation", TRUE) \in RowsOf(req[r].ops) =>
                      CreatedConversationEmpty(r))
    /\ [][\A r \in Reqs :
             ~GatewayStepFailed(r) /\ GatewayStepFailed(r)' =>
                /\ messages' = messages
                /\ conversations' = conversations]_vars

\* A request created its conversation, failed in the call of the model
\* after a failed image-generation call, and left the conversation empty.
C29_Witness ==
    \E r \in SendReqs :
        /\ GatewayStepFailed(r)
        /\ req[r].ops = <<Op("insertConversation", TRUE),
                          Op("generateImage", FALSE),
                          Op("generateContent", FALSE)>>
        /\ CreatedConversationEmpty(r)

(***************************************************************************)
(* C30: two concurrent sendMessage requests that both omit conversationId, *)
(* from the same or different callers and with equal or different message  *)
(* text, resolve to two distinct new conversations, and each conversation  *)
(* receives only the messages of the request that created it, under every  *)
(* interleaving of their steps.                                            *)
(***************************************************************************)
\* Request r omitted conversationId and has resolved its conversation
OpenedConversation(r) ==
    /\ r \in SendReqs
    /\ req[r].conversationId = NoConv
    /\ req[r].currentConversationId # NoConv

MessagesIn(c) == {m \in messages : m.conversation_id = c}

\* The conversation of request r is a row of r's caller titled by r's
\* message, and holds nothing but r's own messages, each at most once
OwnConversation(r) ==
    LET q == req[r]
        rows == MessagesIn(q.currentConversationId)
    IN /\ \E c \in conversations :
             /\ c.id = q.currentConversationId
             /\ c.user_id = q.session.sub
             /\ c.title = substring0(q.message, TitleLen)
       /\ \A m \in rows :
             /\ m.user_id = q.session.sub
             /\ \/ m.role = "user" /\ m.content = q.message
                \/ m.role = "assistant" /\ m.content = q.aiResponseContent
       /\ \A m, n \in rows : m.role = n.role => m = n
       /\ Cardinality(rows) = Len(OpsNamed(r, {"insertUserMessage",
                                               "insertAssistantMessage"}))
                              - Cardinality({i \in 1..Len(q.ops) : ~q.ops[i].ok
                                    /\ q.ops[i].op \in {"insertUserMessage",
                                                        "insertAssistantMessage"}})

C30_DistinctNewConversations ==
    \A r, s \in Reqs :
        r # s /\ OpenedConversation(r) /\ OpenedConversation(s) =>
            /\ req[r].currentConversationId # req[s].currentConversationId
            /\ OwnConversation(r)
            /\ OwnConversation(s)

\* Two requests of one caller with the same text, both without
\* conversationId, succeeded with their writes interleaved: a message of
\* the one was written between the two messages of the other.
C30_Witness ==
    \E r, s \in SendReqs :
        /\ r # s
        /\ OpenedConversation(r) /\ OpenedConversation(s)
        /\ Succeeded(r) /\ Succeeded(s)
        /\ req[r].session = req[s].session
        /\ req[r].message = req[s].message
        /\ req[r].currentConversationId # req[s].currentConversationId
        /\ Cardinality(MessagesIn(req[r].currentConversationId)) = 2
        /\ Cardinality(MessagesIn(req[s].currentConversationId)) = 2
        /\ \E m \in MessagesIn(req[s].currentConversationId) :
              \A n \in MessagesIn(req[r].currentConversationId) :
                 /\ n.role = "user" => n.created_at < m.created_at
                 /\ n.role = "assistant" => m.created_at < n.created_at

==============================================================================
